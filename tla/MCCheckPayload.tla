--------------------------- MODULE MCCheckPayload ---------------------------
(* Small instance of CheckPayload.                                          *)
EXTENDS CheckPayload

Row(re, s, h, c, cs) == [relay |-> re, slot |-> s, hash |-> h, claimed |-> c, checksummed |-> cs]
Block(d, to, v, self) == [delivered |-> d, lastTx |-> to, lastValue |-> v, sent |-> 0,
                    creates |-> to = "create", selfBuilt |-> self, coinbaseDiff |-> -1, toOwn |-> 1]

\* p: pays by balance; f: built by the proposer, pays by the last transaction; o: not
\* on the chain at first; c: pays less, and its last transaction creates a contract.
MCBlocks == [h \in {"p", "f", "o", "c"} |->
    CASE h = "p" -> Block(2, "other", 1, FALSE)
      [] h = "f" -> Block(0, "recipient", 2, TRUE)
      [] h = "o" -> Block(2, "other", 0, FALSE)
      [] h = "c" -> Block(1, "create", 0, FALSE)]
MCCanonical == {"p", "f", "c"}
MCUnsettled == {"f"}
MCStrange == {2}
MCKnown == {"p", "c", "o"}

\* Two relays deliver in slot 2, with different blocks; too much is claimed for p.
MCRows == {Row("fb", 1, "p", 3, TRUE), Row("fb", 2, "f", 2, TRUE), Row("us", 2, "o", 2, TRUE),
           Row("fb", 3, "c", 2, TRUE)}

DefaultMode == {Unchecked}
AllModes == {[kind |-> k, slot |-> 0] : k \in {"unchecked", "incorrect", "missed"}}
              \cup {[kind |-> "all", slot |-> 1], [kind |-> "slot", slot |-> 2]}
=============================================================================
