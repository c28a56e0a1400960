------------------------------- MODULE IniReader -------------------------------
(***************************************************************************)
(* The reading of a configuration file: ini_parse_stream (common/ini.c)    *)
(* with the ValueHandler of INIReader (common/INIReader.cc).  Each action  *)
(* takes one line as fgets gives it; every state is that of a file which   *)
(* ends there.  A text is a sequence of words.                             *)
(*                                                                         *)
(* A line is [kind, indent, name, value, text]: its kind is "comment",     *)
(* "blank", "section" (name in brackets), "open" (no closing bracket),     *)
(* "pair" (name and value, inline comment removed) or "garbage" (no = or   *)
(* :); indent says that it starts with white space, and text is the whole  *)
(* of it, which is what counts when it continues the line before.          *)
(***************************************************************************)
EXTENDS Integers, SequencesExt

CONSTANTS Lines, MaxLines,      \* bound: lines of a file
          lower,                \* a word with capitals -> without
          clip                  \* a long name -> what strncpy0 keeps

(* What is assumed of the constants. *)
IniAssumption == /\ MaxLines \in Nat
                 /\ \A w \in DOMAIN lower : lower[w] \notin DOMAIN lower
                 /\ \A w \in DOMAIN clip : w # "" /\ clip[w] # ""

VARIABLES section, prev_name,   \* "" for none
          error,                \* the first bad line, 0, or -1 for no file
          _values,              \* <<section, name>> -> text
          lines                 \* the lines so far; lineno is their number

vars == <<section, prev_name, error, _values, lines>>

NewLine == "nl"

(* A file that cannot be opened: ParseError() is -1, StorageConfig::getReader *)
(* returns NULL, and its first use ends the process before main.            *)
NotOpened == -1

Init == /\ section = "" /\ prev_name = "" /\ error \in {0, NotOpened}
        /\ _values = [key \in {} |-> <<>>] /\ lines = <<>>

-----------------------------------------------------------------------------
Lower(word) == IF word \in DOMAIN lower THEN lower[word] ELSE word

MakeKey(sec, name) == <<Lower(sec), Lower(name)>>

Get(sec, name, default_value) ==
    LET key == MakeKey(sec, name)
    IN  IF key \in DOMAIN _values THEN _values[key] ELSE default_value

(* A key that comes again, or is continued, gets the text on a new line. *)
ValueHandler(sec, name, value) ==
    LET key == MakeKey(sec, name)
        old == Get(sec, name, <<>>)
    IN  _values' = [k \in DOMAIN _values \cup {key} |->
                      IF k # key THEN _values[k]
                      ELSE (IF old = <<>> THEN <<>> ELSE Append(old, NewLine)) \o value]

Clip(name) == IF name \in DOMAIN clip THEN clip[name] ELSE name

Reads(l) == /\ error # NotOpened /\ Len(lines) < MaxLines
            /\ lines' = Append(lines, l)

(* Continues the value before: a line with text that starts with space. *)
Continues(l) == prev_name # "" /\ l.kind # "blank" /\ l.indent

(* error = lineno, unless there was one. *)
FirstError == error' = IF error = 0 THEN Len(lines) + 1 ELSE error

-----------------------------------------------------------------------------
Skip(l) ==
    /\ Reads(l) /\ l.kind \in {"comment", "blank"}
    /\ UNCHANGED <<section, prev_name, error, _values>>

Continue(l) ==
    /\ Reads(l) /\ l.kind # "comment" /\ Continues(l)
    /\ ValueHandler(section, prev_name, l.text)
    /\ UNCHANGED <<section, prev_name, error>>

\* Mutant: the name of the last pair is kept.
SectionKeepsName(l) ==
    /\ Reads(l) /\ l.kind = "section" /\ ~Continues(l)
    /\ section' = Clip(l.name)
    /\ UNCHANGED <<prev_name, error, _values>>

Section(l) ==
    /\ Reads(l) /\ l.kind = "section" /\ ~Continues(l)
    /\ section' = Clip(l.name) /\ prev_name' = ""
    /\ UNCHANGED <<error, _values>>

(* The handler gets the whole name, prev_name what fits; "=value" has the  *)
(* empty name, after which nothing is continued.                           *)
Pair(l) ==
    /\ Reads(l) /\ l.kind = "pair" /\ ~Continues(l)
    /\ prev_name' = Clip(l.name)
    /\ ValueHandler(section, l.name, l.value)
    /\ UNCHANGED <<section, error>>

Bad(l) ==
    /\ Reads(l) /\ l.kind \in {"open", "garbage"} /\ ~Continues(l)
    /\ FirstError
    /\ UNCHANGED <<section, prev_name, _values>>

Next == \E l \in Lines : Skip(l) \/ Continue(l) \/ Section(l) \/ Pair(l) \/ Bad(l)

Spec == Init /\ [][Next]_vars

-----------------------------------------------------------------------------
(* What a file says, line by line and without a parser's state.  A line    *)
(* continues an earlier one if it is indented and a pair with a name       *)
(* precedes it with no section or nameless pair at the margin in between.  *)
Ends(h) == /\ ~lines[h].indent
           /\ \/ lines[h].kind = "section"
              \/ lines[h].kind = "pair" /\ lines[h].name = ""

Continuing(i) ==
    /\ lines[i].indent /\ lines[i].kind \notin {"comment", "blank"}
    /\ \E j \in 1..(i - 1) :
          /\ lines[j].kind = "pair" /\ lines[j].name # ""
          /\ \A h \in (j + 1)..(i - 1) : ~Ends(h)

(* The lines that give a key some text. *)
Giving == {i \in 1..Len(lines) : Continuing(i) \/ lines[i].kind = "pair"}

(* The lines before i that have the kind and continue nothing. *)
Before(i, kind) == {j \in 1..(i - 1) : lines[j].kind = kind /\ ~Continuing(j)}

SectionAt(i) == LET heads == Before(i, "section")
                IN  IF heads = {} THEN "" ELSE lines[Max(heads)].name

NameAt(i) == IF Continuing(i) THEN lines[Max(Before(i, "pair"))].name ELSE lines[i].name

(* ini.h (58): "the same name for each subsequent line". *)
KeyAt(i) == MakeKey(SectionAt(i), NameAt(i))

(* A section or a continued name that is longer than the array for it: the *)
(* line goes to the key of the clipped text, and neither that key nor its  *)
(* own has what the file says.                                             *)
ClippedAt(i) == MakeKey(Clip(SectionAt(i)),
                        IF Continuing(i) THEN Clip(NameAt(i)) ELSE NameAt(i))
Torn == UNION {{KeyAt(i), ClippedAt(i)} : i \in {i \in Giving : ClippedAt(i) # KeyAt(i)}}

Gives(i, key) == i \in Giving /\ KeyAt(i) = key

(* The texts given to a key, from the first that is not empty, on lines.    *)
TextOf(key) ==
    LET given == [n \in 1..Len(lines) |-> IF Gives(n, key)
                                          THEN <<IF Continuing(n) THEN lines[n].text
                                                 ELSE lines[n].value>>
                                          ELSE <<>>]
        texts == FlattenSeq(given)
        from  == SelectInSeq(texts, LAMBDA t : t # <<>>)
    IN  IF from = 0 THEN <<>>
        ELSE texts[from] \o FlattenSeq([n \in 1..(Len(texts) - from) |->
                                          <<NewLine>> \o texts[from + n]])

(* In a file that was opened every key has the text that the lines of its  *)
(* section give it, from pairs and continuations in their order, no line   *)
(* gives to the key of another section, and ParseError tells the first     *)
(* line that is neither.  Keys torn by a text that is too long are         *)
(* excepted: for them the parser does not do what ini.h says.              *)
IniFound ==
    error # NotOpened =>
        /\ (DOMAIN _values) \ Torn = {KeyAt(i) : i \in Giving} \ Torn
        /\ \A key \in (DOMAIN _values) \ Torn : _values[key] = TextOf(key)
        /\ LET bad == {i \in 1..Len(lines) : lines[i].kind \in {"open", "garbage"}
                                             /\ ~Continuing(i)}
           IN  error = IF bad = {} THEN 0 ELSE Min(bad)
=============================================================================
