------------------------------ MODULE BidLines ------------------------------
(* What a reader finds in the two CSV files of an hour, write by write: the   *)
(* header, the lines of bids, the fragments that failed writes leave behind,  *)
(* and the lines that run into a fragment.  A failed fmt.Fprint may have      *)
(* written a part of its text and no newline; whatever is written next, by    *)
(* this run or a later one, continues that line of text and is no line of its *)
(* own to a reader.  A bid's text is noted with its key, the run that wrote   *)
(* it and whether it came late; a fragment with the key and run of its write. *)
EXTENDS Integers, Sequences

Header         == [kind |-> "header"]
HeaderFragment == [kind |-> "header fragment"]
Fragment(k, r) == [kind |-> "fragment", key |-> k, run |-> r]
BidLine(k, r, late) == [kind |-> "line", key |-> k, run |-> r, late |-> late]

IsFragment(x) == x.kind \in {"fragment", "header fragment"}
IsLine(x)  == x.kind = "line"
IsGlued(x) == x.kind = "glued"
\* The whole text of a bid was written, be it a line to a reader or not.
IsBid(x)   == IsLine(x) \/ IsGlued(x)

EndsTorn(f) == f # <<>> /\ IsFragment(f[Len(f)])

\* What a reader finds of line x written at the end of f.
AsRead(f, x) == IF EndsTorn(f) THEN [x EXCEPT !.kind = "glued"] ELSE x

\* File f has a line of run r for key k; the bid's text, as a line or not; the
\* text, glued to a fragment.
HasLine(f, k, r) == \E j \in DOMAIN f : IsLine(f[j]) /\ f[j].key = k /\ f[j].run = r
HasBid(f, k, r)  == \E j \in DOMAIN f : IsBid(f[j]) /\ f[j].key = k /\ f[j].run = r
HasGlued(f, k, r) == \E j \in DOMAIN f :
    /\ IsGlued(f[j]) /\ f[j].key = k /\ f[j].run = r
    /\ j - 1 \in DOMAIN f /\ IsFragment(f[j - 1])
=============================================================================
