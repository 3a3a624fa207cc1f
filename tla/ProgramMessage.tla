--------------------------- MODULE ProgramMessage ----------------------------
(***************************************************************************)
(* Program messages as bytes: the definite-length block of binary_block.py,   *)
(* and how the scripted instrument splits what it receives into commands and  *)
(* block payloads and completes headers (simulation/scripted.py).             *)
(*                                                                         *)
(* A byte is a short string: one character, "dq" for the quotation mark and    *)
(* "nl" for the command terminator.                                             *)
(***************************************************************************)
EXTENDS Integers, Sequences, FiniteSets, FiniteSetsExt, SequencesExt

CONSTANT MaxBlock     \* DEFAULT_MAXIMUM_BLOCK_SIZE

ASSUME BlockAssumption == MaxBlock \in 0..99

Digit == <<"0", "1", "2", "3", "4", "5", "6", "7", "8", "9">>

IsDigit(c) == \E v \in 1..10 : Digit[v] = c

Value(c) == (CHOOSE v \in 1..10 : Digit[v] = c) - 1

\* Lengths of the instance have at most two digits.
Decimal(n) == IF n < 10 THEN <<Digit[n + 1]>> ELSE <<Digit[(n \div 10) + 1], Digit[(n % 10) + 1]>>

Number(digits) ==
  LET number[k \in 0..Len(digits)] == IF k = 0 THEN 0 ELSE 10 * number[k - 1] + Value(digits[k])
  IN number[Len(digits)]

\* encode_definite_length_block; more than nine digits of length are out of reach.
EncodeBlock(payload) ==
  LET digits == Decimal(Len(payload)) IN
  <<"#", Digit[Len(digits) + 1]>> \o digits \o payload

Malformed(error) == [error |-> error, payload |-> <<>>, end |-> 0]

\* The header and payload of the block that starts at byte i: _length_digit_count,
\* _declared_length and the length check of decode_definite_length_block, which the
\* scripted instrument repeats on what it receives.
BlockFrom(data, i) ==
  LET width == IF i < Len(data) /\ IsDigit(data[i + 1]) THEN Value(data[i + 1]) ELSE 0
      field == SubSeq(data, i + 2, i + 1 + width)
      size == Number(field)
      first == i + 2 + width
  IN IF i >= Len(data) THEN Malformed("ProtocolError")
     ELSE IF data[i + 1] = "0" THEN Malformed("UnsupportedOperationError")
     ELSE IF \/ width = 0
             \/ first - 1 > Len(data)
             \/ \E k \in 1..width : ~IsDigit(field[k]) THEN Malformed("ProtocolError")
     ELSE IF size > MaxBlock \/ first + size - 1 > Len(data) THEN Malformed("ProtocolError")
     ELSE [error |-> "none", payload |-> SubSeq(data, first, first + size - 1),
           end |-> first + size]

\* Faulty variant: what follows the block is never looked at.
DecodeBlockIgnoresRest(data, allowTrailing) ==
  IF data = <<>> \/ data[1] # "#" THEN Malformed("ProtocolError") ELSE BlockFrom(data, 1)

\* decode_definite_length_block.
DecodeBlock(data, allowTrailing) ==
  LET block == BlockFrom(data, 1) IN
  IF data = <<>> \/ data[1] # "#" THEN Malformed("ProtocolError")
  ELSE IF block.error = "none" /\ ~allowTrailing /\ block.end <= Len(data)
         THEN Malformed("ProtocolError")
  ELSE block

------------------------------------------------------------------------------
\* Splitting.

Blank == {" ", "tab"}

\* str.strip.
Strip(s) ==
  LET kept == {i \in 1..Len(s) : s[i] \notin Blank \cup {"nl"}} IN
  IF kept = {} THEN <<>> ELSE SubSeq(s, Min(kept), Max(kept))

TextPart(text) == [text |-> text, block |-> FALSE, payload |-> <<>>]

AddText(parts, s) == IF Strip(s) = <<>> THEN parts ELSE Append(parts, TextPart(Strip(s)))

\* An odd number of quotation marks lies between byte i and the start of its segment: a
\* doubled mark inside a string counts twice and changes nothing.
Quoted(data, start, i) == Cardinality({k \in start..(i - 1) : data[k] = "dq"}) % 2 = 1

\* The n-th smallest of a set of numbers.
Nth(S, n) == CHOOSE i \in S : Cardinality({j \in S : j <= i}) = n

\* _split_program_message and _split_semicolons: lines first, whatever the quotation
\* marks say, then each line at the semicolons that are not quoted.  What is blank
\* between two cuts is no command.
SplitText(data) ==
  LET lines == {i \in 1..Len(data) : data[i] = "nl"}
      first(i) == Max({0} \cup {k \in lines : k < i}) + 1
      cuts == {0, Len(data) + 1} \cup lines \cup
                {i \in 1..Len(data) : data[i] = ";" /\ ~Quoted(data, first(i), i)}
      Piece(cut) == Strip(SubSeq(data, cut + 1, Min({k \in cuts : k > cut}) - 1))
      kept == {cut \in cuts \ {Len(data) + 1} : Piece(cut) # <<>>}
  IN [n \in 1..Cardinality(kept) |-> TextPart(Piece(Nth(kept, n)))]

\* A hash after a blank or a comma opens a block, unless it is a non-decimal number.
OpensBlock(data, start, i) ==
  /\ data[i] = "#"
  /\ i > start
  /\ data[i - 1] \in Blank \cup {","}
  /\ ~(i < Len(data) /\ data[i + 1] \in {"H", "Q", "B"})

\* The byte after the separator that follows a block, blanks skipped; 0 if there is none.
AfterBlock(data, i) ==
  LET next == Min({k \in i..Len(data) : data[k] \notin Blank} \cup {Len(data) + 1}) IN
  IF next > Len(data) THEN next
  ELSE IF data[next] \in {"nl", ";"} THEN next + 1
  ELSE 0

\* The loop of _split_outbound: the byte it goes on from (0 at its end), and the parts.
Refused(error) == [at |-> 0, error |-> error, parts |-> <<>>]

\* One segment of it: up to a separator or a block outside quotation marks.  The payload
\* of a block is skipped unread.
NextSegment(data, scan) ==
  LET stops == {i \in scan.at..Len(data) :
                  /\ ~Quoted(data, scan.at, i)
                  /\ data[i] \in {"nl", ";"} \/ OpensBlock(data, scan.at, i)}
      stop == Min(stops \cup {Len(data) + 1})
      segment == SubSeq(data, scan.at, stop - 1)
      block == BlockFrom(data, stop)
      next == AfterBlock(data, block.end)
  IN IF scan.at = 0 THEN scan
     ELSE IF stop > Len(data) THEN [scan EXCEPT !.at = 0, !.parts = AddText(@, segment)]
     ELSE IF data[stop] # "#" THEN [scan EXCEPT !.at = stop + 1, !.parts = AddText(@, segment)]
     ELSE IF block.error # "none" THEN Refused(block.error)
     ELSE IF Strip(segment) = <<>> \/ next = 0 THEN Refused("ProtocolError")
     ELSE [scan EXCEPT !.at = next,
                       !.parts = Append(@, [text |-> Strip(segment), block |-> TRUE,
                                            payload |-> block.payload])]

\* Every segment but the last has a byte.
Scan(data) ==
  LET scan[k \in 0..(Len(data) + 1)] ==
        IF k = 0 THEN [at |-> 1, error |-> "none", parts |-> <<>>] ELSE NextSegment(data, scan[k - 1])
  IN scan[Len(data) + 1]

\* What the next header is completed with: this one's, up to its last colon (a question
\* mark comes after it).
Parent(text) ==
  LET header == SubSeq(text, 1, Min({i \in 1..Len(text) : text[i] \in Blank} \cup {Len(text) + 1}) - 1)
      colons == {i \in 1..Len(header) : header[i] = ":"}
  IN IF colons = {} \/ header[1] = "*" THEN <<>> ELSE SubSeq(header, 1, Max(colons) - 1)

\* Faulty variant: a header that starts at the root is completed all the same.
CompleteAlways(text, parent) ==
  IF text[1] = "*" \/ parent = <<>> THEN text ELSE parent \o <<":">> \o text

Complete(text, parent) ==
  IF text[1] = ":" THEN Tail(text)
  ELSE IF text[1] = "*" \/ parent = <<>> THEN text
  ELSE parent \o <<":">> \o text

\* _inherit_header_paths.
InheritHeaderPaths(parts) ==
  LET text[k \in 0..Len(parts)] ==
        IF k = 0 THEN <<>> ELSE Complete(parts[k].text, Parent(text[k - 1]))
  IN [k \in DOMAIN parts |-> [parts[k] EXCEPT !.text = text[k]]]

\* _split_outbound: messages without a block are split as text.
SplitOutbound(data) ==
  LET scan == Scan(data)
      text == [error |-> "none", parts |-> InheritHeaderPaths(SplitText(data))]
  IN IF ~\E i \in 1..Len(data) : data[i] = "#" THEN text
     ELSE IF scan.error # "none" THEN [error |-> scan.error, parts |-> <<>>]
     ELSE IF \E i \in DOMAIN scan.parts : scan.parts[i].block
       THEN [error |-> "none", parts |-> InheritHeaderPaths(scan.parts)]
     ELSE text
==============================================================================
