------------------------------ MODULE MCImport ------------------------------
(* Instances of Import for TLC. *)
EXTENDS Import

CONSTANTS pve01, pve02, web, db, i1

MCHostOrder == <<pve01, pve02>>
MCMemory == [node \in {pve01, pve02} |-> IF node = pve01 THEN 312 ELSE 90]

\* A device by hand: named like a host or not, with or without figures.
ByHand(id, name, ram) ==
    [id |-> id, name |-> name, node |-> None, item |-> None, ram |-> ram, cabled |-> TRUE, guests |-> <<>>]

\* Nothing planned yet; two devices, one with a guest planned by hand
\* and dragged from the inventory.
MCPlans ==
    {<<>>,
     <<[ByHand(1, None, 32) EXCEPT !.item = i1, !.guests = <<[id |-> 1, name |-> db, vmid |-> 0, size |-> 2]>>],
       ByHand(2, pve01, 0)>>}

\* The first guest runs on the first host, the second anywhere or not at all.
MCClusters ==
    {c \in [{1, 2} -> [host : {pve01, pve02, None}, name : {web}, size : {1}]] : c[1].host = pve01}

\* Nothing is said of the hosts, or the first is a new device, left out, or one of the
\* planned devices; or both are said to be the same one.
Said(first, second) == [node \in {pve01, pve02} |-> IF node = pve01 THEN first ELSE second]
MCChoices ==
    {Said(first, Unchosen) : first \in {Unchosen, ChoiceNew, ChoiceSkip, 2}} \cup {Said(1, 1)}
=============================================================================
