----------------------------- MODULE MCSandboxes -----------------------------
(* A small instance of Sandboxes: commands in two directories, with a time limit and without,
   and one of every other call. *)
EXTENDS Sandboxes

Req(op, cwd, timed, text) == [op |-> op, cwd |-> cwd, timed |-> timed, text |-> text]

SomeRequests ==
    { Req("exec", Nil, TRUE, Nil), Req("exec", "sub", TRUE, Nil), Req("exec", "mnt", FALSE, Nil),
      Req("glob", "sub", TRUE, Nil), Req("glob", Nil, TRUE, Nil), Req("grep", Nil, TRUE, Nil),
      Req("mount", Nil, TRUE, Nil), Req("unmount", Nil, TRUE, Nil), Req("read", Nil, TRUE, Nil),
      Req("write", Nil, TRUE, <<OldText, RawText>>), Req("edit", Nil, TRUE, Nil),
      Req("shutdown", Nil, TRUE, Nil) }
=============================================================================
