--------------------------- MODULE MCIntegrations ---------------------------
(* An instance of Integrations for TLC. *)
EXTENDS Integrations, TLC

CONSTANTS r1, r2, pve, lab, t1, t2, i1, i2, n1

\* What the dialog sends: a connection with or without its secret, another token, a name alone, an export.
Sends(address, secret) ==
    [address |-> address, token |-> t1, secret |-> secret, pin |-> "presented", export |-> FALSE]
Named == [address |-> None, token |-> None, secret |-> FALSE, pin |-> "absent", export |-> FALSE]
MCInputs ==
    {Sends(address, secret) : address \in {pve, lab}, secret \in BOOLEAN}
    \cup {[Sends(pve, FALSE) EXCEPT !.token = t2]}
    \cup {Named, [Named EXCEPT !.export = TRUE], [Named EXCEPT !.pin = "none"]}

Symmetric == Permutations({r1, r2}) \cup Permutations({i1, i2})
=============================================================================
