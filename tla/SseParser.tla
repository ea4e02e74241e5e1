------------------------------ MODULE SseParser ------------------------------
(***************************************************************************)
(* sse_parser: the events of a text/event-stream body that arrives in      *)
(* pieces, split anywhere.  One step of feed() is one round of its loop,   *)
(* which takes the rest of a line.                                         *)
(***************************************************************************)
EXTENDS Naturals, Sequences, SequencesExt

CONSTANTS
    Characters,
    data_field,     \* the characters of "data:", or of a shorter name
    space, cr, lf,  \* the characters that mean something besides
    Pieces,         \* what a read may bring
    MaxPieces       \* bound on the pieces of a body

ASSUME CharactersAssumption ==
    /\ {space, cr, lf} \subseteq Characters /\ cr # lf
    /\ data_field \in Seq(Characters) /\ data_field # <<>>
    /\ Pieces \subseteq Seq(Characters)

VARIABLES
    data_,      \* data of the event being received
    state_,     \* line_state
    matched_,   \* how much of data_field the line has matched
    after_cr_,  \* the last piece ended in CR
    rest,       \* the rest of the piece that feed() is parsing
    body,       \* the body up to here, and
    pieces,     \* in how many pieces it came
    events      \* the events it has completed

vars == <<data_, state_, matched_, after_cr_, rest, body, pieces, events>>

Init ==
    /\ data_ = <<>> /\ state_ = "field" /\ matched_ = 0 /\ after_cr_ = FALSE
    /\ rest = <<>> /\ body = <<>> /\ pieces = 0 /\ events = <<>>

\* s without its first character, if that is c.
Skip(s, c) == IF s # <<>> /\ Head(s) = c THEN Tail(s) ELSE s

Ends == {cr, lf}

\* find_line_end(): how many characters of the line there are in s.
LineLength(s) == CHOOSE n \in 0..Len(s) :
    /\ n = Len(s) \/ s[n + 1] \in Ends
    /\ \A i \in 1..n : s[i] \notin Ends

Opened(data) == IF data = <<>> THEN <<>> ELSE Append(data, lf)

\* What follows the name: a first character that is a space is dropped.
Value(data, content) ==
    IF content = <<>>
    THEN [state |-> "value_start", matched |-> Len(data_field), data |-> data]
    ELSE [state |-> "value", matched |-> Len(data_field), data |-> data \o Skip(content, space)]

\* A piece of a line, with p.state, p.matched and p.data so far.  How far a line
\* matched that is ignored is of no use to anyone.
consume_line_content(p, content) ==
    LET unmatched == SubSeq(data_field, p.matched + 1, Len(data_field))
    IN CASE p.state = "ignored" -> p
         [] p.state = "value" -> [p EXCEPT !.data = @ \o content]
         [] p.state = "value_start" -> Value(p.data, content)
         [] p.state = "field" /\ IsStrictPrefix(content, unmatched) -> [p EXCEPT !.matched = @ + Len(content)]
         [] p.state = "field" /\ IsPrefix(unmatched, content) ->
                Value(Opened(p.data), SubSeq(content, Len(unmatched) + 1, Len(content)))
         [] OTHER -> [p EXCEPT !.state = "ignored"]

-----------------------------------------------------------------------------

\* A fault: nothing is remembered of the piece before.
FeedAfresh(piece) ==
    /\ rest' = piece
    /\ after_cr_' = FALSE

\* An empty piece changes nothing.
FeedPiece(piece) ==
    /\ rest' = IF after_cr_ THEN Skip(piece, lf) ELSE piece
    /\ after_cr_' = (after_cr_ /\ piece = <<>>)

Feed ==
    /\ rest = <<>> /\ pieces < MaxPieces
    /\ \E piece \in Pieces :
        /\ FeedPiece(piece)
        /\ body' = body \o piece
    /\ pieces' = pieces + 1
    /\ UNCHANGED <<data_, state_, matched_, events>>

\* The piece ends within the line.
FeedContent ==
    /\ rest # <<>> /\ LineLength(rest) = Len(rest)
    /\ LET p == consume_line_content([state |-> state_, matched |-> matched_, data |-> data_], rest)
       IN state_' = p.state /\ matched_' = p.matched /\ data_' = p.data
    /\ rest' = <<>>
    /\ UNCHANGED <<after_cr_, body, pieces, events>>

\* The line ends within the piece: end_line(), which calls on_event() for a blank one.
FeedLine ==
    /\ LineLength(rest) < Len(rest)
    /\ LET n == LineLength(rest)
           p == consume_line_content([state |-> state_, matched |-> matched_, data |-> data_],
                                     SubSeq(rest, 1, n))
           next == SubSeq(rest, n + 2, Len(rest))
           dispatch == p.state = "field" /\ p.matched = 0 /\ p.data # <<>>
       IN /\ rest' = IF rest[n + 1] = cr THEN Skip(next, lf) ELSE next
          /\ after_cr_' = (rest[n + 1] = cr /\ next = <<>>)
          /\ events' = IF dispatch THEN Append(events, p.data) ELSE events
          /\ data_' = IF dispatch THEN <<>> ELSE p.data
    /\ state_' = "field" /\ matched_' = 0
    /\ UNCHANGED <<body, pieces>>

\* A new body.  The one before may have ended anywhere.
Reset ==
    /\ rest = <<>> /\ pieces > 0
    /\ data_' = <<>> /\ state_' = "field" /\ matched_' = 0 /\ after_cr_' = FALSE
    /\ rest' = <<>> /\ body' = <<>> /\ pieces' = 0 /\ events' = <<>>

Next == Feed \/ FeedContent \/ FeedLine \/ Reset

Spec == Init /\ [][Next]_vars

-----------------------------------------------------------------------------
(* Properties.                                                             *)

\* The characters that end a line: CR, and LF unless it completes a CRLF.
IsEnd(b, i) == b[i] = cr \/ (b[i] = lf /\ ~(i > 1 /\ b[i - 1] = cr))

\* The line that character n belongs to, up to there.
LineUpTo(b, n) ==
    LET start == CHOOSE s \in 1..(n + 1) :
            /\ s = 1 \/ b[s - 1] \in Ends
            /\ \A i \in s..n : b[i] \notin Ends
    IN SubSeq(b, start, n)

AddLine(p, line) ==
    LET value == Skip(SubSeq(line, Len(data_field) + 1, Len(line)), space)
    IN CASE line = <<>> /\ p.data # <<>> -> [data |-> <<>>, events |-> Append(p.events, p.data)]
         [] IsPrefix(data_field, line) ->
                [p EXCEPT !.data = Opened(@) \o value]
         [] OTHER -> p

\* What the lines of b come to that end within its first i characters.
ParsedTo(b) ==
    LET parsed[i \in 0..Len(b)] ==
            IF i = 0 THEN [data |-> <<>>, events |-> <<>>]
            ELSE IF IsEnd(b, i) THEN AddLine(parsed[i - 1], LineUpTo(b, i - 1))
            ELSE parsed[i - 1]
    IN parsed

\* However a body is split, its events are those of the whole: "Lines end in CRLF,
\* LF or CR. A "data:" line appends its value, less one leading space, to the current
\* event, joined to earlier non-empty data by LF; a blank line dispatches the event
\* if its data is non-empty." (sse_parser.hpp:13-15)
EventsMatch ==
    rest = <<>> => events = ParsedTo(body)[Len(body)].events
=============================================================================
