------------------------------- MODULE Channel -------------------------------
(***************************************************************************)
(* What an event stream promises, with no waiters, wakeups or              *)
(* cancellations: every writer numbers its items one at a time and puts    *)
(* each behind what is there, or gives one up between two others; the      *)
(* reader takes them from the front, and the mark that ends the stream     *)
(* goes behind everything, unless the stream is cut short.  EventStream    *)
(* implements it.                                                          *)
(***************************************************************************)
EXTENDS Naturals, Sequences

CONSTANT Writers

VARIABLES
    author,     \* who numbered each item
    hand,       \* the item each writer has still to put, 0 for none
    ahead,      \* put and not taken; 0 marks the end
    given,      \* taken
    state,      \* "open", "closing" or "shut" to writers
    reading,    \* whether the reader still takes
    dropped,    \* given up by their writers
    cut         \* whether the stream was cut short

vars == <<author, hand, ahead, given, state, reading, dropped, cut>>

Init ==
    /\ author = <<>>
    /\ hand = [w \in Writers |-> 0]
    /\ ahead = <<>>
    /\ given = <<>>
    /\ state = "open"
    /\ reading = TRUE
    /\ dropped = {}
    /\ cut = FALSE

\* A new item is put at once, or kept in hand.
Number(w) ==
    /\ state = "open"
    /\ hand[w] = 0
    /\ author' = Append(author, w)
    /\ \/ hand' = [hand EXCEPT ![w] = Len(author')] /\ ahead' = ahead
       \/ ahead' = Append(ahead, Len(author')) /\ hand' = hand
    /\ UNCHANGED <<given, state, reading, dropped, cut>>

Put(w) ==
    /\ hand[w] # 0
    /\ ahead' = Append(ahead, hand[w])
    /\ hand' = [hand EXCEPT ![w] = 0]
    /\ UNCHANGED <<author, given, state, reading, dropped, cut>>

\* A writer gives up an item, having had another accepted before it.
GiveUp(w) ==
    /\ hand[w] # 0
    /\ \E i \in 1 .. hand[w] - 1 : author[i] = w /\ i \notin dropped
    /\ dropped' = dropped \cup {hand[w]}
    /\ hand' = [hand EXCEPT ![w] = 0]
    /\ UNCHANGED <<author, ahead, given, state, reading, cut>>

\* It has had another accepted since.
MadeUpFor(d) == \E j \in d + 1 .. Len(author) : author[j] = author[d] /\ j \notin dropped

\* Only a stream that is cut short drops an item for good.
Drop(w) ==
    /\ cut' = TRUE
    /\ hand' = [hand EXCEPT ![w] = 0]
    /\ UNCHANGED <<author, ahead, given, state, reading, dropped>>

\* Nothing is numbered any more, and unless the stream is cut short all is put and
\* every item given up has been made up for.  The mark goes on at once, or later.
Close ==
    /\ state = "open"
    /\ cut \/ ((\A w \in Writers : hand[w] = 0) /\ \A d \in dropped : MadeUpFor(d))
    /\ \/ state' = "closing" /\ ahead' = ahead
       \/ state' = "shut" /\ ahead' = Append(ahead, 0)
    /\ UNCHANGED <<author, hand, given, reading, dropped, cut>>

\* Only a stream that is cut short stays without its mark.
Mark ==
    /\ state = "closing"
    /\ state' = "shut"
    /\ ahead' = Append(ahead, 0) \/ (cut /\ ahead' = ahead)
    /\ UNCHANGED <<author, hand, given, reading, dropped, cut>>

Give ==
    /\ reading
    /\ ahead # <<>> /\ Head(ahead) # 0
    /\ given' = Append(given, Head(ahead))
    /\ ahead' = Tail(ahead)
    /\ UNCHANGED <<author, hand, state, reading, dropped, cut>>

End ==
    /\ reading
    /\ ahead # <<>> /\ Head(ahead) = 0
    /\ ahead' = Tail(ahead)
    /\ reading' = FALSE
    /\ UNCHANGED <<author, hand, given, state, dropped, cut>>

Leave ==
    /\ reading' = FALSE
    /\ cut' = TRUE
    /\ UNCHANGED <<author, hand, ahead, given, state, dropped>>

Next ==
    \/ \E w \in Writers : Number(w) \/ Put(w) \/ GiveUp(w) \/ Drop(w)
    \/ Close \/ Mark \/ Give \/ End \/ Leave

Spec == Init /\ [][Next]_vars
=============================================================================
