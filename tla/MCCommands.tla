----------------------------- MODULE MCCommands -----------------------------
(* Instances of Commands for TLC.  A coin of 5 pays amount and fee of 1 + 4 * 2 - 1 only   *)
(* together with others, so the sets below make selections of one to four coins.          *)
EXTENDS Commands

Base == [kind |-> "send", method |-> "file", dest |-> "name", proof |-> "no", peer |-> 3,
         target |-> 3, useAll |-> FALSE, ttl |-> 0, amount |-> 2, change |-> 1,
         coins |-> <<6, 8>>]

Methodical(m) ==
    [Base EXCEPT !.method = m, !.dest = CASE m = "self" -> "none"
                                          [] m = "http" -> "url"
                                          [] OTHER      -> "name"]

\* Every method, with and without a ttl, and the versions that matter to it.
Plain == UNION {{Methodical(m), [Methodical(m) EXCEPT !.ttl = 1]} : m \in Methods}
Versions ==
    {[Methodical("http") EXCEPT !.peer = 2, !.ttl = 1],
     [Methodical("keybase") EXCEPT !.target = 2],
     [Methodical("http") EXCEPT !.dest = "name"]}

\* A proof for the onion destination, or for an address given with it.
Proofs ==
    {[Methodical(m) EXCEPT !.dest = "onion", !.proof = "yes"] : m \in {"http", "file", "self"}}
    \cup {[Methodical("file") EXCEPT !.proof = p] : p \in {"yes", "address"}}
    \cup {[Methodical("http") EXCEPT !.proof = "address", !.peer = p] : p \in {2, 3}}

\* Change in more parts than divide it, or than there is change, or in none.
Splits == {[Base EXCEPT !.method = "self", !.dest = "none", !.change = n, !.coins = c] :
             n \in {0, 2, 3}, c \in {<<20>>, <<13>>, <<19>>, <<17>>}}

Invoices ==
    {[Methodical(m) EXCEPT !.kind = "invoice"] : m \in {"file", "http", "self"}}
    \cup {[Methodical("file") EXCEPT !.kind = "invoice", !.ttl = 1],
          [Methodical("http") EXCEPT !.kind = "invoice", !.dest = "name"]}

\* Selections: up to four coins, under a soft limit of two.
CoinSets == {<<9>>, <<3, 9>>, <<5, 5>>} \cup {<<a, b, c>> : a \in {1, 2}, b \in {2, 3}, c \in {4, 8}}
            \cup {<<a, b, 4, d>> : a \in {1, 2}, b \in {2, 3}, d \in {4, 6}}
Estimates == {[Base EXCEPT !.kind = "estimate", !.amount = a, !.useAll = u, !.change = n,
                           !.coins = c] :
                a \in {0, 1, 2, 3, 5}, u \in BOOLEAN, n \in {1, 2}, c \in CoinSets}

All == Plain \cup Versions \cup Proofs \cup Splits \cup Invoices \cup Estimates
OverEpicbox == {[Methodical("epicbox") EXCEPT !.proof = "address"]}
=============================================================================
