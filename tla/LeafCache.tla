------------------------------ MODULE LeafCache ------------------------------
(***************************************************************************)
(* The leaf certificates of the proxy (tls.rs, CaContext).  A caller looks *)
(* its host up under the lock, mints outside of it, and takes the lock     *)
(* again to keep what is there or put its own.                             *)
(***************************************************************************)
EXTENDS Integers, FiniteSets

CONSTANTS
    Conns,  \* the connections that ask for a configuration
    Names,  \* the hosts they ask for
    NoConfig

ASSUME LeafAssumption == NoConfig \notin Conns

VARIABLES
    leaf,    \* leaf_cache: the configuration of each host, named for the caller that minted it
    lookup   \* server_config_for of each caller: [st, host, cfg]

leafVars == <<leaf, lookup>>

LeafInit ==
    /\ leaf = [h \in Names |-> NoConfig]
    /\ lookup = [c \in Conns |-> [st |-> "idle", host |-> NoConfig, cfg |-> NoConfig]]

(* server_config_for: the lookup *)
Lookup(c, host) ==
    /\ lookup[c].st = "idle"
    /\ lookup' = [lookup EXCEPT ![c] =
                    IF leaf[host] # NoConfig THEN [st |-> "served", host |-> host, cfg |-> leaf[host]]
                    ELSE [st |-> "minting", host |-> host, cfg |-> NoConfig]]
    /\ UNCHANGED leaf

(* mint: a fresh key, so a configuration unlike any other; or a name that is no DNS name,
   or no key *)
Mint(c) ==
    /\ lookup[c].st = "minting"
    /\ lookup' = [lookup EXCEPT ![c].st = "minted"]
    /\ UNCHANGED leaf

MintFails(c) ==
    /\ lookup[c].st = "minting"
    /\ lookup' = [lookup EXCEPT ![c].st = "failed"]
    /\ UNCHANGED leaf

(* Mutant: insert instead of or_insert. *)
StoreOverwrites(c) ==
    /\ lookup[c].st = "minted"
    /\ leaf' = [leaf EXCEPT ![lookup[c].host] = c]
    /\ lookup' = [lookup EXCEPT ![c].st = "served", ![c].cfg = c]

(* entry().or_insert(fresh) *)
Store(c) ==
    /\ lookup[c].st = "minted"
    /\ LET host == lookup[c].host
       IN  /\ leaf' = [leaf EXCEPT ![host] = IF @ = NoConfig THEN c ELSE @]
           /\ lookup' = [lookup EXCEPT ![c].st = "served", ![c].cfg = leaf'[host]]

LeafStep(c) == Mint(c) \/ MintFails(c) \/ Store(c)

-----------------------------------------------------------------------------
(* "every caller for a host shares exactly one" (tls.rs server_config_for), whoever mints
   meanwhile: nobody is served a certificate the cache does not hold for its host. *)
OneLeafPerHost ==
    \A c, d \in Conns :
        lookup[c].st = "served" /\ lookup[d].st = "served" /\ lookup[c].host = lookup[d].host
            => lookup[c].cfg = lookup[d].cfg /\ lookup[c].cfg # NoConfig
=============================================================================
