---------------------------- MODULE JsonBuilder -----------------------------
(***************************************************************************)
(* The growing text buffer of src/util.c in which every reply body is      *)
(* built.  The text itself does not matter, only its length: what can go   *)
(* wrong is that a write leaves the allocation, that a size computation    *)
(* wraps around, or that formatting never fits.                            *)
(***************************************************************************)
EXTENDS Integers

CONSTANTS
  SizeMax,    \* SIZE_MAX
  ObjectMax,  \* the largest allocation that can succeed, PTRDIFF_MAX
  FirstCap,   \* the capacity json_builder_init asks for, 256
  Texts       \* the lengths of the texts that are appended

ASSUME SizeAssumption ==
  SizeMax \in Nat /\ ObjectMax \in Nat /\ 2 * ObjectMax < SizeMax
ASSUME FirstCapAssumption == FirstCap \in Nat \ {0} /\ FirstCap <= ObjectMax
\* A text is itself an object in memory, or no longer than INT_MAX.
ASSUME TextsAssumption == \A n \in Texts : n \in Nat /\ n < ObjectMax

VARIABLES
  len, cap,     \* builder->len and builder->cap; both 0 without a buffer
  place,        \* where the caller is in util.c; "none" without a buffer
  text, extra,  \* the length of the text to append, and the room asked for
  nextCap,      \* next_cap of json_builder_reserve
  rounds        \* how often json_builder_appendf has formatted the text

builderVars == <<len, cap, place, text, extra, nextCap, rounds>>

\* size_t arithmetic.
Size(n) == n % (SizeMax + 1)

NoBuffer ==
  /\ len' = 0 /\ cap' = 0
  /\ place' = "none"
  /\ text' = 0 /\ extra' = 0 /\ nextCap' = 0 /\ rounds' = 0

BuilderInit ==
  /\ len = 0 /\ cap = 0
  /\ place = "none"
  /\ text = 0 /\ extra = 0 /\ nextCap = 0 /\ rounds = 0

\* json_builder_init; when malloc fails there is no buffer.
Create ==
  /\ place = "none"
  /\ cap' = FirstCap
  /\ place' = "idle"
  /\ UNCHANGED <<len, text, extra, nextCap, rounds>>

\* json_builder_append: room for the text, then the copy.
AppendText(n) ==
  /\ place = "idle"
  /\ text' = n /\ extra' = n
  /\ place' = "reserve"
  /\ UNCHANGED <<len, cap, nextCap, rounds>>

\* json_builder_appendf: a first attempt with the room there is.
AppendFormatted(n) ==
  /\ place = "idle"
  /\ text' = n
  /\ place' = "format"
  /\ UNCHANGED <<len, cap, extra, nextCap, rounds>>

\* Faulty variant: the terminating zero byte is forgotten.
NeededWithoutZero == Size(len + extra)

Needed == Size(len + extra + 1)

\* The caller goes on once there is room: append copies, appendf formats again.
Granted == IF rounds = 0 THEN "copy" ELSE "format"

SumTooLarge == extra > SizeMax - len - 1

\* json_builder_reserve: enough room already, or the search for a capacity.
Reserve ==
  /\ place = "reserve"
  /\ ~SumTooLarge
  /\ IF Needed <= cap
     THEN place' = Granted /\ UNCHANGED nextCap
     ELSE place' = "double" /\ nextCap' = IF cap = 0 THEN FirstCap ELSE cap
  /\ UNCHANGED <<len, cap, text, extra, rounds>>

\* Faulty variant: the doubling is not limited.
DoublingUnlimited == FALSE

DoublingTooLarge == nextCap > SizeMax \div 2

Double ==
  /\ place = "double"
  /\ nextCap < Needed
  /\ ~DoublingTooLarge
  /\ nextCap' = Size(nextCap * 2)
  /\ UNCHANGED <<len, cap, place, text, extra, rounds>>

Realloc ==
  /\ place = "double"
  /\ nextCap >= Needed
  /\ nextCap <= ObjectMax
  /\ cap' = nextCap
  /\ place' = Granted
  /\ UNCHANGED <<len, text, extra, nextCap, rounds>>

Copy ==
  /\ place = "copy"
  /\ len' = Size(len + text)
  /\ place' = "idle"
  /\ text' = 0 /\ extra' = 0 /\ nextCap' = 0
  /\ UNCHANGED <<cap, rounds>>

\* vsnprintf wrote the whole text and its zero byte.
Formatted == Size(len + text) < cap

\* vsnprintf writes what fits; its return value tells whether that was all.
Format ==
  /\ place = "format"
  /\ IF Formatted
     THEN /\ len' = Size(len + text)
          /\ place' = "idle"
          /\ text' = 0 /\ extra' = 0 /\ nextCap' = 0 /\ rounds' = 0
     ELSE /\ extra' = Size(text + 1)
          /\ place' = "reserve"
          /\ rounds' = rounds + 1
          /\ UNCHANGED <<len, text, nextCap>>
  /\ UNCHANGED cap

\* The sum or the doubling would exceed SIZE_MAX, realloc or vsnprintf fails: the
\* caller gets 0 and frees the buffer.
Refuse ==
  /\ \/ place = "reserve" /\ SumTooLarge
     \/ place = "double" /\ nextCap < Needed /\ DoublingTooLarge
     \/ place = "double" /\ nextCap >= Needed
     \/ place = "format"
  /\ NoBuffer

\* json_builder_take and json_builder_free.
Release ==
  /\ place = "idle"
  /\ NoBuffer

BuilderStep ==
  \/ Create
  \/ \E n \in Texts : AppendText(n) \/ AppendFormatted(n)
  \/ Reserve \/ Double \/ Realloc \/ Copy \/ Format \/ Refuse

BuilderNext == BuilderStep \/ Release

-----------------------------------------------------------------------------
\* Types: every size is one that a size_t can hold.
BuilderTypeOK ==
  /\ len \in 0..SizeMax /\ cap \in 0..SizeMax
  /\ nextCap \in 0..SizeMax /\ extra \in 0..SizeMax
  /\ text \in Texts \cup {0}
  /\ rounds \in Nat
  /\ place \in {"none", "idle", "reserve", "double", "copy", "format"}

\* Every write stays inside the allocation, through any sequence of appends: the
\* buffer always has room for its zero byte, memcpy for the text and its zero
\* byte, and vsnprintf is never told that it may write more than there is.
WritesFit ==
  /\ place # "none" => len < cap
  /\ place = "copy" => len + text + 1 <= cap

\* Neither loop of the builder runs for ever.  The search for a capacity only
\* grows, for no doubling wraps around to zero, from where it would be doubled
\* again and again; and after the buffer has grown the second attempt at
\* formatting succeeds.
LoopsEnd ==
  /\ place = "double" => nextCap >= cap /\ nextCap > 0
  /\ rounds <= 1
  /\ place = "format" /\ rounds = 1 => len + text < cap
=============================================================================
