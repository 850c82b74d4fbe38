--------------------------- MODULE MCVerification ---------------------------
(***************************************************************************)
(* Instances of Verification for TLC.  Ann applies with two seeds, the     *)
(* second being the same human under another seed; Bea is a stranger and   *)
(* Cyd is Ann's twin.                                                      *)
(***************************************************************************)
EXTENDS Verification, TLC

CONSTANTS ann, ann2, bea, cyd, doc1, doc2, br, ve

MCFaceOf == ann :> "A" @@ ann2 :> "A" @@ bea :> "B" @@ cyd :> "C"
MCTwins == {{"A", "C"}}

Passport(seed, doc) == [valid |-> TRUE, document |-> doc, seed |-> seed]

OnePassport == {Passport(ann, doc1)}
RenewedPassports == {Passport(ann, doc1), Passport(ann, doc2)}
SybilPassports == {Passport(ann, doc1), Passport(ann2, doc2)}
FamilyPassports == {Passport(ann, doc1), Passport(cyd, doc2)}

Interchangeable ==
    Permutations(Wallets) \cup Permutations(Sessions)
        \cup Permutations(Requests) \cup Permutations(Nonces)
=============================================================================
