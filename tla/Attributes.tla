------------------------------ MODULE Attributes ------------------------------
(***************************************************************************)
(* parseAttributes (internal/observer/compile.go): how the attributes of   *)
(* an activity line are read, key="value" after key="value".  One step per *)
(* scan of the loop; positions count from 1 here, from 0 in Go.            *)
(*                                                                         *)
(* The characters are those that the scan and strconv.Unquote tell apart:  *)
(* the quote, the backslash, the equals sign, the space and other ones,    *)
(* of which none makes an escape sequence with a backslash before it.      *)
(***************************************************************************)
EXTENDS Naturals, Sequences, FiniteSetsExt

CONSTANT Inputs   \* what may follow "activity " on a line

Quote     == "\""
Backslash == "\\"
Equals    == "="
Space     == " "
Letters   == {"k"}
Character == {Quote, Backslash, Equals, Space} \cup Letters

(* The line has been trimmed, so it does not end in a space.               *)
ASSUME AttributesAssumption ==
  \A s \in Inputs : s \in Seq(Character) /\ s # <<>> /\ s[Len(s)] # Space

NoError == ""

(* The first of the stops from position i on, or the end of the text.      *)
FirstFrom(s, i, stops) == Min({j \in stops : j >= i} \cup {Len(s) + 1})

(* Where a text has a character of a kind.                                 *)
At(s, kind) == {j \in DOMAIN s : s[j] \in kind}

UnescapedQuotes(s) == {j \in At(s, {Quote}) : j > 1 /\ s[j - 1] # Backslash}

-----------------------------------------------------------------------------
(* strconv.Unquote on what stands between two quotes, as the set of its    *)
(* result: a backslash takes the next character, which has to be a quote   *)
(* or a backslash; a quote of its own is not allowed.                      *)
UnquotedFrom(body) ==
  LET from[i \in 1..(Len(body) + 2)] ==
        IF i > Len(body) THEN IF i = Len(body) + 1 THEN {<<>>} ELSE {}
        ELSE IF body[i] = Quote THEN {}
        ELSE IF body[i] # Backslash THEN {<<body[i]>> \o v : v \in from[i + 1]}
        ELSE IF i < Len(body) /\ body[i + 1] \in {Quote, Backslash}
             THEN {<<body[i + 1]>> \o v : v \in from[i + 2]}
             ELSE {}
  IN  from

unquote(body) == UnquotedFrom(body)[1]

-----------------------------------------------------------------------------
VARIABLES
  input,
  position,    \* the next character
  key,         \* the key that was read last
  valueStart,  \* where the value after it begins
  attrs,       \* the attributes read so far
  pc,
  error

vars == <<input, position, key, valueStart, attrs, pc, error>>

NoAttributes == [k \in {} |-> <<>>]

(* A map with a value for a key, in the place of the one it may have had.  *)
Assigned(map, k, v) == [x \in DOMAIN map \cup {k} |-> IF x = k THEN v ELSE map[x]]

Init ==
  /\ input \in Inputs
  /\ position = 1
  /\ key = <<>>
  /\ valueStart = 1
  /\ attrs = NoAttributes
  /\ pc = "key"
  /\ error = NoError

Proceed(reason, step) ==
  /\ error' = reason
  /\ pc' = IF reason = NoError THEN step ELSE "returned"

(* Spaces are skipped; a key runs up to an equals sign.                    *)
ReadKey ==
  /\ pc = "key"
  /\ LET start == FirstFrom(input, position, At(input, Character \ {Space}))
         end   == FirstFrom(input, start, At(input, {Equals, Space}))
     IN  /\ start <= Len(input)
         /\ IF end = start \/ end > Len(input) \/ input[end] # Equals
            THEN /\ Proceed("INVALID_ATTRIBUTE", "open")
                 /\ position' = end
                 /\ UNCHANGED key
            ELSE /\ Proceed(NoError, "open")
                 /\ position' = end + 1
                 /\ key' = SubSeq(input, start, end - 1)
  /\ UNCHANGED <<input, valueStart, attrs>>

(* Nothing but spaces is left: the attributes are returned.                *)
ReturnAttributes ==
  /\ pc = "key"
  /\ \A j \in position..Len(input) : input[j] = Space
  /\ position' = Len(input) + 1
  /\ pc' = "returned"
  /\ UNCHANGED <<input, key, valueStart, attrs, error>>

OpenQuote ==
  /\ pc = "open"
  /\ IF position > Len(input) \/ input[position] # Quote
     THEN /\ Proceed("ATTRIBUTES_MUST_BE_QUOTED", "value")
          /\ UNCHANGED <<position, valueStart>>
     ELSE /\ Proceed(NoError, "value")
          /\ valueStart' = position
          /\ position' = position + 1
  /\ UNCHANGED <<input, key, attrs>>

(* Slip: a value that is not terminated ends behind the input.             *)
ReadValueBeyond ==
  /\ pc = "value"
  /\ LET close == FirstFrom(input, position, UnescapedQuotes(input))
         end   == Min({close, Len(input)})
     IN  /\ position' = close + 1
         /\ Proceed(IF input[end] = Quote THEN NoError ELSE "UNTERMINATED_ATTRIBUTE",
                    "unquote")
  /\ UNCHANGED <<input, key, valueStart, attrs>>

(* Slip: the first quote ends the value.                                   *)
ReadValueUnescaped ==
  /\ pc = "value"
  /\ LET close == FirstFrom(input, position, At(input, {Quote}))
         end   == Min({close, Len(input)})
     IN  /\ position' = end + 1
         /\ Proceed(IF input[end] = Quote THEN NoError ELSE "UNTERMINATED_ATTRIBUTE",
                    "unquote")
  /\ UNCHANGED <<input, key, valueStart, attrs>>

(* The value ends at the first quote that has no backslash directly before *)
(* it, or else at the end of the input, which has to be a quote.           *)
ReadValue ==
  /\ pc = "value"
  /\ LET close == FirstFrom(input, position, UnescapedQuotes(input))
         end   == Min({close, Len(input)})
     IN  /\ position' = end + 1
         /\ Proceed(IF input[end] = Quote THEN NoError ELSE "UNTERMINATED_ATTRIBUTE",
                    "unquote")
  /\ UNCHANGED <<input, key, valueStart, attrs>>

(* Slip: the first value of a key stays.                                   *)
UnquoteValueKept ==
  /\ pc = "unquote"
  /\ LET value == IF position - valueStart < 2 THEN {}
                  ELSE unquote(SubSeq(input, valueStart + 1, position - 2))
     IN  IF value = {}
         THEN /\ Proceed("INVALID_SYNTAX", "key")
              /\ UNCHANGED attrs
         ELSE /\ Proceed(NoError, "key")
              /\ attrs' = IF key \in DOMAIN attrs THEN attrs
                         ELSE Assigned(attrs, key, CHOOSE v \in value : TRUE)
  /\ UNCHANGED <<input, position, key, valueStart>>

(* The text from the opening quote to here is unquoted; that is an error   *)
(* when the opening quote is all there is.  A key that was read before is  *)
(* overwritten.                                                            *)
UnquoteValue ==
  /\ pc = "unquote"
  /\ LET value == IF position - valueStart < 2 THEN {}
                  ELSE unquote(SubSeq(input, valueStart + 1, position - 2))
     IN  IF value = {}
         THEN /\ Proceed("INVALID_SYNTAX", "key")
              /\ UNCHANGED attrs
         ELSE /\ Proceed(NoError, "key")
              /\ attrs' = Assigned(attrs, key, CHOOSE v \in value : TRUE)
  /\ UNCHANGED <<input, position, key, valueStart>>

Returned == pc = "returned" /\ UNCHANGED vars

Next ==
  \/ ReadKey \/ ReturnAttributes \/ OpenQuote \/ ReadValue \/ UnquoteValue
  \/ Returned

Spec == Init /\ [][Next]_vars

-----------------------------------------------------------------------------
(* The reference: what a quoted attribute means.                           *)

(* A backslash in a value takes the character after it along, so a quote   *)
(* ends the value when the backslashes before it come in pairs.            *)
Unescaped(s, open, j) ==
  LET run == {i \in (open + 1)..(j - 1) : \A h \in i..(j - 1) : s[h] = Backslash}
  IN  Cardinality(run) % 2 = 0

Closing(s, open) ==
  FirstFrom(s, open + 1, {j \in At(s, {Quote}) : Unescaped(s, open, j)})

(* The quotes at which the values of a text open, or 0 where the text is   *)
(* not a list of attributes.                                               *)
Attribute(s, i) ==
  LET start == FirstFrom(s, i, At(s, Character \ {Space}))
      open  == FirstFrom(s, start, At(s, {Equals, Space})) + 1
  IN  [start |-> start, open |-> open, close |-> Closing(s, open),
       correct |-> /\ start + 1 < open /\ open < Len(s)
                   /\ s[open - 1] = Equals /\ s[open] = Quote
                   /\ Closing(s, open) <= Len(s)
                   /\ unquote(SubSeq(s, open + 1, Closing(s, open) - 1)) # {}]

(* All attributes of a text in their order, from any place on and from the *)
(* first, as the set of the one list, or of none.                          *)
AttributesFrom(s) ==
  LET from[i \in 1..(Len(s) + 1)] ==
        IF \A j \in i..Len(s) : s[j] = Space THEN {<<>>}
        ELSE LET a == Attribute(s, i)
             IN  IF a.correct THEN {<<a>> \o rest : rest \in from[a.close + 1]}
                              ELSE {}
  IN  from

AttributesOf(s) == AttributesFrom(s)[1]

KeyOf(s, a)   == SubSeq(s, a.start, a.open - 2)
BodyOf(s, a)  == SubSeq(s, a.open + 1, a.close - 1)

(* What they bind: the last value that is given for every key.             *)
Binding(s, as) ==
  [k \in {KeyOf(s, as[i]) : i \in DOMAIN as} |->
     LET a == as[Max({i \in DOMAIN as : KeyOf(s, as[i]) = k})]
     IN  CHOOSE v \in unquote(BodyOf(s, a)) : TRUE]

-----------------------------------------------------------------------------
(* Properties.                                                             *)

(* No scan leaves the input, however it ends.                              *)
TypeOK ==
  /\ input \in Seq(Character)
  /\ position \in 1..(Len(input) + 1)
  /\ valueStart \in 1..Len(input)
  /\ key \in Seq(Character \ {Equals, Space})
  /\ pc \in {"key", "open", "value", "unquote", "returned"}
  /\ error \in {NoError, "INVALID_ATTRIBUTE", "ATTRIBUTES_MUST_BE_QUOTED",
                "UNTERMINATED_ATTRIBUTE", "INVALID_SYNTAX"}

(* The look at one character before a quote never misreads a line: what is *)
(* accepted is a list of attributes, read with the values it means.        *)
ReadsWhatIsWritten ==
  pc = "returned" /\ error = NoError =>
    \E as \in AttributesOf(input) : attrs = Binding(input, as)

(* And it refuses a list of attributes only for a value that ends in an    *)
(* escaped backslash and is not the last.                                  *)
RefusesOnlyTrailingBackslash ==
  pc = "returned" /\ error # NoError =>
    \A as \in AttributesOf(input) :
      \E i \in DOMAIN as :
        /\ i < Len(as)
        /\ BodyOf(input, as[i]) # <<>>
        /\ input[as[i].close - 1] = Backslash
=============================================================================
