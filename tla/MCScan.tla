------------------------------- MODULE MCScan -------------------------------
(***************************************************************************)
(* A small instance of Scan: bytes 0 and 1, where 1 plays the greatest     *)
(* byte, and keys that are prefixes of one another.                        *)
(***************************************************************************)
EXTENDS Scan

MCKey == {<<0>>, <<0, 1>>, <<1>>, <<1, 1>>}

\* Every kind of prefix (empty, with and without a successor), and a range
\* whose ends are keys.
MCCall ==
    {[prefix |-> p] : p \in {<<>>, <<0>>, <<0, 1>>, <<1, 1>>}}
        \cup {[begin |-> <<0, 1>>, end |-> {<<1, 1>>}]}

\* Hash words small enough to collide and to wrap, one step of them even.
MCFirstHash(key) == (Len(key) * 3 + key[1] * 6) % 8
MCSecondHash(key) == (Len(key) + Last(key) * 5) % 8
=============================================================================
