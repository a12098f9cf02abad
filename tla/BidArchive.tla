----------------------------- MODULE BidArchive -----------------------------
(***************************************************************************)
(* What the bid collector promises to the readers of its archive, with no  *)
(* word about caches, locks, handles or the order of its writes: two files *)
(* per bucket that only grow, an "all" file that has a bid twice only when *)
(* it came late, and a "top" file of bids of the "all" file that rise.     *)
(* The process may end at any time; the next run adds to the same files.   *)
(* BidProcessor implements this specification.                             *)
(***************************************************************************)
EXTENDS BidLines

CONSTANTS Buckets, Keys

VARIABLES fAll, fTop, run

vars == <<fAll, fTop, run>>

Init ==
    /\ fAll = [b \in Buckets |-> <<>>]
    /\ fTop = [b \in Buckets |-> <<>>]
    /\ run = 1

InRun(k) == \E b \in Buckets : HasBid(fAll[b], k, run)

\* k beats every top bid that this run wrote for its slot, in whatever bucket.
Beats(k) ==
    \A b \in Buckets : \A j \in DOMAIN fTop[b] :
        (IsBid(fTop[b][j]) /\ fTop[b][j].run = run /\ fTop[b][j].key.slot = k.slot)
            => fTop[b][j].key.value < k.value

Grow(f, b, x) == [f EXCEPT ![b] = Append(@, x)]

\* Only an empty file gets a header.
AddHeader(b) ==
    /\ \/ fAll[b] = <<>> /\ fAll' = Grow(fAll, b, Header) /\ UNCHANGED fTop
       \/ fTop[b] = <<>> /\ fTop' = Grow(fTop, b, Header) /\ UNCHANGED fAll
    /\ UNCHANGED run

\* A bid is a line to the reader unless the file ends with a fragment.
AddBid(b, k, late) ==
    /\ fAll[b] # <<>>
    /\ InRun(k) => late
    /\ fAll' = Grow(fAll, b, AsRead(fAll[b], BidLine(k, run, late)))
    /\ UNCHANGED <<fTop, run>>

AddTopBid(b, k, late) ==
    /\ fTop[b] # <<>>
    /\ HasLine(fAll[b], k, run) \/ HasGlued(fAll[b], k, run)
    /\ Beats(k)
    /\ fTop' = Grow(fTop, b, AsRead(fTop[b], BidLine(k, run, late)))
    /\ UNCHANGED <<fAll, run>>

\* The write of a bid breaks off.
AddFragment(b, k) ==
    /\ \/ fAll[b] # <<>> /\ fAll' = Grow(fAll, b, Fragment(k, run)) /\ UNCHANGED fTop
       \/ fTop[b] # <<>> /\ fTop' = Grow(fTop, b, Fragment(k, run)) /\ UNCHANGED fAll
    /\ UNCHANGED run

\* The write of a header breaks off.
AddHeaderFragment(b) ==
    \/ fAll[b] = <<>> /\ fAll' = Grow(fAll, b, HeaderFragment) /\ UNCHANGED fTop
    \/ fTop[b] = <<>> /\ fTop' = Grow(fTop, b, HeaderFragment) /\ UNCHANGED fAll

\* The process ends, perhaps for a header it could not write, and is started
\* again.
NewRun ==
    /\ run' = run + 1
    /\ UNCHANGED <<fAll, fTop>> \/ \E b \in Buckets : AddHeaderFragment(b)

Next ==
    \/ \E b \in Buckets : AddHeader(b)
    \/ \E b \in Buckets, k \in Keys, late \in BOOLEAN : AddBid(b, k, late) \/ AddTopBid(b, k, late)
    \/ \E b \in Buckets, k \in Keys : AddFragment(b, k)
    \/ NewRun

Spec == Init /\ [][Next]_vars

-----------------------------------------------------------------------------
\* Every line of a "top" file is a line of the "all" file of the same hour, from
\* the same run, or the bid's text runs into the fragment of a failed write there:
\* a crash or a failed write between the two lines of writeBidToFile, an eviction
\* or a re-sent bid never leaves a top bid that the full archive was not given.
TopLinesAreInAll ==
    \A b \in Buckets : \A i \in DOMAIN fTop[b] :
        IsLine(fTop[b][i]) =>
            \/ HasLine(fAll[b], fTop[b][i].key, fTop[b][i].run)
            \/ HasGlued(fAll[b], fTop[b][i].key, fTop[b][i].run)

\* Within a run the top bids of a slot strictly increase along each "top" file
\* and are never repeated in another hour's file, although housekeeping drops
\* the slot from bidCache in between.  Texts that run into a fragment count.
TopLinesIncrease ==
    \A b, c \in Buckets : \A i \in DOMAIN fTop[b], j \in DOMAIN fTop[c] :
        (/\ <<b, i>> # <<c, j>>
         /\ IsBid(fTop[b][i])
         /\ IsBid(fTop[c][j])
         /\ fTop[b][i].run = fTop[c][j].run
         /\ fTop[b][i].key.slot = fTop[c][j].key.slot)
        => /\ fTop[b][i].key.value # fTop[c][j].key.value
           /\ b = c /\ i < j => fTop[b][i].key.value < fTop[c][j].key.value

\* Within a run a key is written twice, in whichever hours' files, only if the
\* later copy came more than CacheSlots after its slot: eviction, which uses a
\* slot number read before the lock, never forgets a slot too early.
DuplicatesAreLate ==
    \A b, c \in Buckets : \A i \in DOMAIN fAll[b], j \in DOMAIN fAll[c] :
        (/\ <<b, i>> # <<c, j>>
         /\ IsBid(fAll[b][i])
         /\ IsBid(fAll[c][j])
         /\ fAll[b][i].run = fAll[c][j].run
         /\ fAll[b][i].key = fAll[c][j].key)
        => fAll[b][i].late \/ fAll[c][j].late

\* A file begins with its only header, or with the fragment of one: closing a
\* handle, reopening for a late bid, and restarting in the middle of getFiles
\* never put a header among the data.
HeaderIsFirst ==
    \A f \in {fAll[b] : b \in Buckets} \cup {fTop[b] : b \in Buckets} :
        \A i \in DOMAIN f : IF i = 1 THEN f[i] \in {Header, HeaderFragment} ELSE f[i] # Header
=============================================================================
