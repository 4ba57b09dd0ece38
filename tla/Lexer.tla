------------------------------- MODULE Lexer -------------------------------
(***************************************************************************)
(* The lexer of core/language/satoshi_lang.py, one turn of the loop of     *)
(* tokenize per step.  The source is a sequence of characters; letters,    *)
(* digits and white space are the classes the lexer asks for.  A token     *)
(* keeps where it came from: [type, from, upto], both ends included, so    *)
(* that its value is the source between them.  Lines and columns, which    *)
(* only error messages show, are left out.                                 *)
(***************************************************************************)
EXTENDS Integers, Sequences

CONSTANTS Letters, Digits,   \* what isalpha (or "_") and isdigit accept
          Keywords,          \* words of KEYWORDS, as sequences of characters
          Unnamed,           \* keywords without a member in TokenType
          Sources            \* source texts to read

ASSUME LexerAssumption == Unnamed \subseteq Keywords

VARIABLES source, position, tokens, lexing
lexVars == <<source, position, tokens, lexing>>

White == {" ", "\n"}
Quotes == {"\"", "'"}
TwoCharOps == {<<"-", ">">>, <<"=", ">">>, <<"=", "=">>, <<"!", "=">>, <<"<", "=">>, <<">", "=">>,
               <<"&", "&">>, <<"|", "|">>}
SingleCharOps == {"(", ")", "{", "}", "[", "]", ";", ":", ",", ".", "+", "-", "*", "/", "%",
                  "=", "<", ">", "!"}

\* The character at p, "" past the end (Python's None).
At(p) == IF p <= Len(source) THEN source[p] ELSE ""
End == Len(source) + 1

\* The first position from p on whose character is not in set.
Past(p, set) == CHOOSE q \in p .. End :
  At(q) \notin set /\ \A k \in p .. q - 1 : source[k] \in set

\* Where the loop of tokenize stands after _skip_whitespace.
Start == Past(position, White)

Lexing == lexing = "running" /\ Start < End

Took(type, upto) ==
  /\ tokens' = Append(tokens, [type |-> type, from |-> Start, upto |-> upto - 1])
  /\ position' = upto
  /\ UNCHANGED <<source, lexing>>

Raise(error) == lexing' = error /\ position' = Start /\ UNCHANGED <<source, tokens>>

LexInit ==
  /\ source \in Sources /\ position = 1 /\ tokens = << >> /\ lexing = "running"

LineComment ==
  /\ Lexing /\ At(Start) = "/" /\ At(Start + 1) = "/"
  /\ \E q \in Start .. End :
       /\ At(q) \in {"\n", ""}
       /\ \A k \in Start .. q - 1 : source[k] # "\n"
       /\ position' = q
  /\ UNCHANGED <<source, tokens, lexing>>

\* Ends behind the first "*/"; without one the loop stops at the last character,
\* which is then read as a token of its own.
Closes(p) == At(p) = "*" /\ At(p + 1) = "/"

BlockComment ==
  /\ Lexing /\ At(Start) = "/" /\ At(Start + 1) = "*"
  /\ LET closings == {p \in Start + 2 .. Len(source) - 1 : Closes(p)}
         last == IF Start + 2 > Len(source) THEN End ELSE Len(source)
     IN  position' = IF closings = {} THEN last
                     ELSE (CHOOSE p \in closings : \A q \in closings : p <= q) + 2
  /\ UNCHANGED <<source, tokens, lexing>>

Decorator == Lexing /\ At(Start) = "@" /\ Took("DECORATOR", Start + 1)

\* Mutant: a "." behind digits always makes a float.
NumberTakesDot ==
  /\ Lexing /\ At(Start) \in Digits
  /\ LET dot == Past(Start, Digits)
     IN  IF At(dot) = "." THEN Took("FLOAT", Past(dot + 1, Digits)) ELSE Took("INTEGER", dot)

\* At the very end of the source the character after a "." is None, whose
\* isdigit raises AttributeError.
Number ==
  /\ Lexing /\ At(Start) \in Digits
  /\ LET dot == Past(Start, Digits)
     IN  IF At(dot) = "." /\ dot + 1 = End THEN Raise("AttributeError")
         ELSE IF At(dot) = "." /\ At(dot + 1) \in Digits THEN Took("FLOAT", Past(dot + 1, Digits))
         ELSE Took("INTEGER", dot)

\* A backslash takes the character after it along, whatever it is.
RECURSIVE StringEnd(_, _)
StringEnd(p, quote) ==
  IF p >= End THEN End
  ELSE IF At(p) = quote THEN p
  ELSE IF At(p) = "\\" THEN StringEnd(p + 2, quote)
  ELSE StringEnd(p + 1, quote)

String ==
  /\ Lexing /\ At(Start) \in Quotes
  /\ LET close == StringEnd(Start + 1, At(Start))
     IN  IF close = End THEN Raise("SyntaxError") ELSE Took("STRING", close + 1)

\* TokenType has no member for four of the keywords: the lookup raises KeyError.
Word ==
  /\ Lexing /\ At(Start) \in Letters
  /\ LET upto == Past(Start, Letters \cup Digits)
         word == SubSeq(source, Start, upto - 1)
     IN  IF word \in Unnamed THEN Raise("KeyError")
         ELSE Took(IF word \in Keywords THEN "KEYWORD" ELSE "IDENTIFIER", upto)

Comment == At(Start) = "/" /\ At(Start + 1) \in {"/", "*"}

Operator ==
  /\ Lexing /\ ~Comment
  /\ LET two == <<At(Start), At(Start + 1)>>
     IN  \/ two \in TwoCharOps /\ Took("OPERATOR", Start + 2)
         \/ two \notin TwoCharOps /\ At(Start) \in SingleCharOps /\ Took("OPERATOR", Start + 1)

InvalidCharacter ==
  /\ Lexing
  /\ At(Start) \notin Digits \cup Quotes \cup Letters \cup SingleCharOps \cup {"@"}
  /\ <<At(Start), At(Start + 1)>> \notin TwoCharOps
  /\ Raise("SyntaxError")

EndOfSource ==
  /\ lexing = "running" /\ Start = End
  /\ lexing' = "done" /\ position' = End /\ UNCHANGED <<source, tokens>>

LexNext == \/ LineComment \/ BlockComment \/ Decorator \/ Number \/ String \/ Word
           \/ Operator \/ InvalidCharacter \/ EndOfSource
=============================================================================
