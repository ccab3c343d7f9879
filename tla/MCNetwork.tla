--------------------------------- MODULE MCNetwork ---------------------------------
(* What the service does over the network: it fetches pages, collects the originals   *)
(* of a company, stores originals as objects that an operator takes stock of, and     *)
(* delivers documents to the knowledge app.  The four share no state, so each is       *)
(* explored while the others wait.                                                     *)
EXTENDS Distribution, Fetching, Collecting, ArtifactInventory, TLC

CONSTANTS own, address, internal

\* A site that can be reached both ways, a public address and an internal one.
UrlsOfThree ==
    {[scheme |-> s, host |-> own] : s \in {"http", "https"}}
      \cup {[scheme |-> "https", host |-> address], [scheme |-> "http", host |-> internal]}

\* Two listings of one report, one whose size is not known, and an abridged report.
Listed(id, size, full) == [id |-> id, title |-> "annual", size |-> size, full |-> full]
ListingsOfFour ==
    {<<>>, <<Listed(1, 5, TRUE)>>, <<Listed(2, 5, TRUE)>>, <<Listed(3, Unsized, TRUE)>>,
     <<Listed(4, 5, FALSE)>>}
TotalsUpToThree == {NoTotal, 1, 2, 3}
PeriodListsOfThree ==
    {<<>>, <<"2023">>, <<"2024", "2023", "2022">>, <<"2024", "2024", "2023">>}

ThreePlaces == 1 .. 3
TwoKeys == [p \in ThreePlaces |-> IF p = 3 THEN "derived" ELSE "original"]
RowIdsOfThree == <<3, 1, 2>>

VARIABLE part   \* the one that is explored

NetworkInit ==
    /\ Init /\ FetchInit /\ CollectInit /\ InventoryInit
    /\ part \in {"deliver", "fetch", "collect", "store"}

NetworkNext ==
    /\ UNCHANGED part
    /\ \/ part = "deliver" /\ Next /\ UNCHANGED <<fetchVars, collectVars, inventoryVars>>
       \/ part = "fetch" /\ FetchNext /\ UNCHANGED <<vars, collectVars, inventoryVars>>
       \/ part = "collect" /\ CollectNext /\ UNCHANGED <<vars, fetchVars, inventoryVars>>
       \/ part = "store" /\ InventoryNext /\ UNCHANGED <<vars, fetchVars, collectVars>>

NetworkSpec ==
    NetworkInit /\ [][NetworkNext]_<<part, vars, fetchVars, collectVars, inventoryVars>>

NetworkSymmetry == Permutations(Workers)
====================================================================================
