------------------------------ MODULE Streams ------------------------------
(***************************************************************************)
(* JsonObjectStream: putting together the settings documents that the      *)
(* window notifies in packets cut at any byte, characters included.        *)
(*                                                                         *)
(* A document is a sequence of units: braces, keys, a value that stands    *)
(* for all of the document's, and one character of two bytes.              *)
(***************************************************************************)
EXTENDS Integers, Sequences, FiniteSets, SequencesExt

CONSTANT MaxSize  \* max_size, in units: what the buffer may hold

ASSUME StreamsAssumption == MaxSize \in Nat \ {0}

\* {"ScreenBrightness":{"value":5},"name":"<a character of two bytes>"}
\* "next" is a comma, a key and the quote that opens its text; the last brace
\* comes with the quote that closes it.
Shape == <<"open", "key", "open", "key", "val", "close", "next", "lead", "tail", "close">>
UnitsOf(d) == [i \in DOMAIN Shape |->
                  IF Shape[i] = "val" THEN <<"val", d>> ELSE <<Shape[i]>>]

\* What JSON lets follow what; "lead" stands for its whole character once that
\* is decoded.
Follows == {<<"open", "key">>, <<"key", "open">>, <<"key", "val">>, <<"val", "close">>,
            <<"close", "next">>, <<"next", "lead">>, <<"lead", "close">>, <<"close", "close">>}

-----------------------------------------------------------------------------
(* The incremental UTF-8 decoder                                           *)

\* Malformed: a second byte with no first, a first byte with no second.
Decodes(u) == \A i \in DOMAIN u :
    /\ u[i][1] # "bad"
    /\ u[i][1] = "tail" => i > 1 /\ u[i-1][1] = "lead"
    /\ u[i][1] = "lead" /\ i < Len(u) => u[i+1][1] = "tail"

\* The first byte of a character whose second has not come is kept.
Pending(u) == IF u # <<>> /\ Last(u)[1] = "lead" THEN <<Last(u)>> ELSE <<>>
Decoded(u) ==
    LET kept[n \in 0..Len(u)] ==
            IF n = 0 THEN <<>>
            ELSE IF u[n][1] = "tail" THEN kept[n-1] ELSE Append(kept[n-1], u[n])
    IN  kept[Len(u) - Len(Pending(u))]

-----------------------------------------------------------------------------
(* json.raw_decode, and the loop over it                                   *)

Depth(s, j) == Cardinality({i \in 1..j : s[i][1] = "open"})
               - Cardinality({i \in 1..j : s[i][1] = "close"})

\* Where the object s begins with ends: at most one place, none if it is
\* incomplete or broken, which raw_decode does not tell apart.
Ends(s) == {j \in DOMAIN s :
              /\ Depth(s, j) = 0
              /\ \A i \in 1..(j-1) : Depth(s, i) > 0 /\ <<s[i][1], s[i+1][1]>> \in Follows}

From(s, j) == SubSeq(s, j, Len(s))
Opening(s) == {j \in DOMAIN s : s[j][1] = "open"}

\* Something that is no JSON and no object's beginning is skipped up to the
\* next brace, and the loop is left: what begins there waits for a packet.
Skipped(s) == IF Opening(s) = {} THEN <<>>
              ELSE From(s, CHOOSE j \in Opening(s) : \A i \in Opening(s) : j <= i)

\* One round: a bare value is taken and dropped, a whole object is taken.
Round(s) ==
    IF ~s.on \/ s.text = <<>> THEN s
    ELSE LET head == s.text[1][1]
             ends == IF head = "open" THEN Ends(s.text) ELSE {}
             e    == CHOOSE j \in ends : TRUE
         IN  CASE ends # {} -> [s EXCEPT !.text = From(@, e + 1),
                                         !.out = Append(@, SubSeq(s.text, 1, e))]
               [] head = "val" -> [s EXCEPT !.text = Tail(@)]
               [] head = "open" /\ ends = {} -> [s EXCEPT !.on = FALSE]
               [] OTHER -> [s EXCEPT !.on = FALSE, !.text = Skipped(@)]

Drained(text) ==
    LET after[n \in 0..Len(text)] ==
            IF n = 0 THEN [on |-> TRUE, text |-> text, out |-> <<>>]
            ELSE Round(after[n-1])
    IN  after[Len(text)]

-----------------------------------------------------------------------------
(* feed                                                                    *)

Empty == [half |-> <<>>, text |-> <<>>]

Raised == [stream |-> Empty, out |-> <<>>]

\* A slip: a malformed packet resets the decoder and not the buffer.
FeedDirty(s, payload) ==
    LET bytes == s.half \o payload
        text  == s.text \o Decoded(bytes)
        done  == Drained(text)
    IN  IF ~Decodes(bytes) THEN [stream |-> [s EXCEPT !.half = <<>>], out |-> <<>>]
        ELSE IF Len(text) > MaxSize THEN Raised
        ELSE [stream |-> [half |-> Pending(bytes), text |-> done.text],
              out |-> done.out]

\* A slip: the limit is looked at before the packet is appended.
FeedLate(s, payload) ==
    LET bytes == s.half \o payload
        text  == s.text \o Decoded(bytes)
        done  == Drained(text)
    IN  IF ~Decodes(bytes) \/ Len(s.text) > MaxSize THEN Raised
        ELSE [stream |-> [half |-> Pending(bytes), text |-> done.text],
              out |-> done.out]

\* A slip: the buffer is not emptied when the limit is exceeded.
FeedKeeping(s, payload) ==
    LET bytes == s.half \o payload
        text  == s.text \o Decoded(bytes)
        done  == Drained(text)
    IN  IF ~Decodes(bytes) THEN Raised
        ELSE IF Len(text) > MaxSize THEN [stream |-> s, out |-> <<>>]
        ELSE [stream |-> [half |-> Pending(bytes), text |-> done.text],
              out |-> done.out]

\* A slip: every packet is decoded on its own.
FeedForgetting(s, payload) ==
    LET text == s.text \o Decoded(payload)
        done == Drained(text)
    IN  IF ~Decodes(payload) \/ Len(text) > MaxSize THEN Raised
        ELSE [stream |-> [half |-> <<>>, text |-> done.text], out |-> done.out]

\* The stream after a payload was fed, and the objects returned.
Feed(s, payload) ==
    LET bytes == s.half \o payload
        text  == s.text \o Decoded(bytes)
        done  == Drained(text)
    IN  IF ~Decodes(bytes) \/ Len(text) > MaxSize THEN Raised
        ELSE [stream |-> [half |-> Pending(bytes), text |-> done.text],
              out |-> done.out]

-----------------------------------------------------------------------------
(* TextStream.feed: a text has neither length nor end, so a payload is a   *)
(* value unless it stops inside a character.                               *)

Nothing == <<>>
TextFeed(s, payload) ==
    LET bytes == s.half \o payload
        text  == s.text \o Decoded(bytes)
    IN  IF ~Decodes(bytes) THEN [stream |-> Empty, out |-> Nothing]
        ELSE IF Pending(bytes) # <<>>
        THEN [stream |-> [half |-> Pending(bytes), text |-> text], out |-> Nothing]
        ELSE [stream |-> Empty, out |-> <<text>>]
=============================================================================
