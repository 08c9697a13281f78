------------------------------ MODULE ConfigCStr ------------------------------
(***************************************************************************)
(* Config::c_str(buff, size) of src/src/utils/config.cpp: the properties   *)
(* printed into a caller's buffer of size bytes as                         *)
(*     {\n  "name": "value",\n  "name": "value"\n}                         *)
(* with one snprintf per property, the running index idx (an int) advanced *)
(* by snprintf's return value (the length it would have written), and a    *)
(* closing snprintf at idx - 2 that overwrites the last ",\n".             *)
(*                                                                         *)
(* Characters are integers; the text of a property is abstracted to its    *)
(* length (10 + |name| + |value|), its characters told apart by the        *)
(* property's position and their own.  size - idx is computed in size_t:  *)
(* a negative difference wraps to a count larger than any text, which      *)
(* Word stands for.                                                        *)
(***************************************************************************)
EXTENDS Integers, Sequences, SequencesExt

CONSTANTS
    Sizes,       \* buffer sizes the caller passes (ASSERT(size > 0))
    EntryLens,   \* lengths of one formatted property line
    MinEntries,  \* bounds on the number of properties in m_properties
    MaxEntries

ASSUME Sizes \subseteq Nat \ {0} /\ \A l \in EntryLens : l >= 12

VARIABLES
    size,        \* the size argument
    entries,     \* lengths of the property lines, in map order
    buff,        \* the buffer, and the bytes past its end: position -> char
    idx,         \* int idx
    it,          \* the iterator, as a position in entries
    pc,          \* "open" | "loop" | "done"
    outside      \* ghost: a byte at or past buff[size] was written

vars == <<size, entries, buff, idx, it, pc, outside>>

\* size_t arithmetic, reduced to a width larger than every length here
Word == 2^30
SizeT(x) == x % Word

NUL == 0
LBRACE == 1
RBRACE == 2
NL == 3
COMMA == 4
UNSET == -1

\* the bytes the model keeps: the buffer and enough beyond it
Cap == 3 + MaxEntries * Max(EntryLens) + Max(Sizes)
Positions == 0 .. Cap - 1

\* "  \"%s\": \"%s\",\n" of the i-th property, len characters
Line(i, len) == [j \in 1 .. len |-> CASE j = len - 1 -> COMMA
                                      [] j = len     -> NL
                                      [] OTHER       -> 100 * i + j]

(***************************************************************************)
(* std::snprintf(&buff[p], n, s): at most n - 1 characters of s and a NUL  *)
(* when n > 0; the result is Len(s) whatever was written.                  *)
(***************************************************************************)
Kept(n, s) == IF n = 0 THEN 0 ELSE Min({Len(s), n - 1})

Snprintf(b, p, n, s) ==
    [x \in DOMAIN b |-> IF p <= x /\ x < p + Kept(n, s) THEN s[x - p + 1]
                        ELSE IF n > 0 /\ x = p + Kept(n, s) THEN NUL
                        ELSE b[x]]

\* the positions one snprintf writes
Span(p, n, s) == IF n = 0 THEN {} ELSE p .. p + Kept(n, s)

\* fault: the closing text placed one character too far
ClosePosOff(i) == i - 1

\* &buff[idx-2]: the closing "\n}" overwrites the last ",\n"
ClosePos(i) == i - 2

Init ==
    /\ size \in Sizes
    /\ entries \in UNION {[1 .. m -> EntryLens] : m \in MinEntries .. MaxEntries}
    /\ buff = [x \in Positions |-> UNSET]
    /\ idx = 0
    /\ it = 1
    /\ pc = "open"
    /\ outside = FALSE

\* idx += std::snprintf(&buff[idx], size, "{\n")
Open ==
    /\ pc = "open"
    /\ buff' = Snprintf(buff, 0, size, <<LBRACE, NL>>)
    /\ idx' = 2
    /\ outside' = \E x \in Span(0, size, <<LBRACE, NL>>) : x >= size
    /\ pc' = "loop"
    /\ UNCHANGED <<size, entries, it>>

(***************************************************************************)
(* One iteration: while (it != end) && (size > idx).  n <= 0 only on an    *)
(* encoding error, which these plain strings cannot cause.                 *)
(***************************************************************************)
Entry ==
    LET n == SizeT(size - idx)
        s == Line(it, entries[it])
    IN
    /\ pc = "loop"
    /\ it <= Len(entries) /\ size > idx
    /\ buff' = Snprintf(buff, idx, n, s)
    /\ idx' = idx + Len(s)
    /\ it' = it + 1
    /\ outside' = (outside \/ \E x \in Span(idx, n, s) : x >= size)
    /\ UNCHANGED <<size, entries, pc>>

\* std::snprintf(&buff[idx-2], size-idx+2, "\n}")
Close ==
    LET p == ClosePos(idx)
        n == SizeT(size - idx + 2)
    IN
    /\ pc = "loop"
    /\ it > Len(entries) \/ size <= idx
    /\ buff' = Snprintf(buff, p, n, <<NL, RBRACE>>)
    /\ outside' = (outside \/ \E x \in Span(p, n, <<NL, RBRACE>>) : x >= size)
    /\ pc' = "done"
    /\ UNCHANGED <<size, entries, idx, it>>

Next == Open \/ Entry \/ Close

\* c_str returns: the run ends in "done"
Spec == Init /\ [][Next]_vars

-----------------------------------------------------------------------------
(* Properties *)

\* the C string at buff: the characters before the first NUL
RECURSIVE CString(_)
CString(x) == IF x >= Cap \/ buff[x] = NUL THEN <<>> ELSE <<buff[x]>> \o CString(x + 1)

\* the object the format describes: "{", the lines separated by ",", "\n}"
Expected ==
    <<LBRACE>>
    \o FlattenSeq([i \in 1 .. Len(entries) |->
                     (IF i > 1 THEN <<COMMA>> ELSE <<>>)
                     \o <<NL>> \o SubSeq(Line(i, entries[i]), 1, entries[i] - 2)])
    \o <<NL, RBRACE>>

(***************************************************************************)
(* When the whole text and its NUL fit in size bytes, c_str leaves the     *)
(* JSON object of all properties in the buffer: the closing snprintf      *)
(* replaces exactly the last ",\n".                                        *)
(***************************************************************************)
CStrIsObject ==
    pc = "done" /\ Len(Expected) < size => CString(0) = Expected

(***************************************************************************)
(* c_str writes nothing at or past buff[size], whatever the size.          *)
(***************************************************************************)
WritesInBounds == ~outside

=============================================================================
