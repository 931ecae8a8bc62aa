--------------------------- MODULE MCSameBankPairs ---------------------------
(* A small machine: three banks of three, three and one address.           *)
EXTENDS BankTimings

MCAddr == 0 .. 6

SevenBanks == [a \in MCAddr |-> <<0, 0, 0, 1, 1, 1, 2>>[a + 1]]
SevenRows  == [a \in MCAddr |-> <<0, 0, 1, 0, 1, 2, 0>>[a + 1]]

(* Random draws end: some order of them fills as many sets as are wanted,  *)
(* and the loop that waits for exactly that number sees it.                *)
CollectionEnds == <>(pc = "done")
=============================================================================
