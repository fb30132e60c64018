----------------------------- MODULE MCSession -----------------------------
EXTENDS Session, TLC

CONSTANTS p1, p2, p3

TwoPrompts == {p1, p2}

ThreePrompts == {p1, p2, p3}

PromptSymmetry == Permutations(Prompts)
=============================================================================
