-------------------------- MODULE MC_VaultContents --------------------------
(* Two devices of one vault that started with two nested folders, or empty. *)
EXTENDS VaultContents, TLC

CONSTANTS f1, f2, n1, n2

Nested == [folders |-> f1 :> [parent |-> None, name |-> n1]
                       @@ f2 :> [parent |-> f1, name |-> n2],
           tags |-> <<>>]

Empty == [folders |-> <<>>, tags |-> <<>>]

TwoTemplates == {Nested, Empty}

DeviceSymmetry == Permutations(Devices)
=============================================================================
