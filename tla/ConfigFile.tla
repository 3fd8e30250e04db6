----------------------------- MODULE ConfigFile -----------------------------
(***************************************************************************)
(* The configuration file, zerovsh.ini, and ini_puts (minini/minIni.c).    *)
(*                                                                         *)
(* A file is a sequence of tokens: a section header, the name of a key     *)
(* with its '=', one character of a value, the end of a line.  ini_puts    *)
(* copies it line by line into a second file, whose name ends in '~', and  *)
(* then removes the first and renames the second.  Each read of a line,    *)
(* write of a piece, remove and rename is a step, and before any of them   *)
(* the power may fail (Crash).  A read may fail, which the code takes for  *)
(* the end of the file, and the card may fill up, in the middle of a       *)
(* piece, which it does not notice.  That an open for reading, a remove or *)
(* a rename fails while the power is on is left out.  Neither file is      *)
(* truncated when it is opened.                                            *)
(***************************************************************************)
EXTENDS Integers, Sequences, FiniteSets

CONSTANTS
    Headers,        \* the tokens of section headers
    Keys,           \* the tokens of keys, with the '='
    Slide,          \* "[SlidePlugin]", the section that is written to
    Puts,           \* the keys that are written, all in Slide
    Values,         \* the values that are written, sequences of characters
    InitialFiles,   \* the file before the first put
    FragileFiles,   \* those with which faults are considered
    MaxPuts,        \* bound: puts in a behaviour
    MaxFaults       \* bound: crashes, failed reads and full cards in a behaviour

nl == "\n"
blank == " "
quote == "\""
escape == "\\"
Comment == {";", "#"}

Absent == <<"absent">>

Tokens == Headers \cup Keys \cup Comment \cup {nl, quote, escape, blank, "x", "y"}

ASSUME TokensAssumption ==
    /\ Slide \in Headers /\ Puts \subseteq Keys
    /\ Headers \cap Keys = {}
    /\ (Headers \cup Keys) \cap (Comment \cup {nl, quote, escape, blank, "x", "y", "absent"}) = {}
    /\ Values \subseteq Seq(Tokens \ (Headers \cup Keys \cup {nl}))
    /\ InitialFiles \subseteq Seq(Tokens) \cup {Absent}
    /\ FragileFiles \subseteq InitialFiles
    /\ MaxPuts \in Nat /\ MaxFaults \in Nat

VARIABLES
    file,           \* zerovsh.ini
    temp,           \* zerovsh.in~
    pc,             \* where ini_puts is
    arg,            \* its Key and its Value
    rpos,           \* the read position in file
    out,            \* pieces it is about to write
    wpos,           \* the write position
    copied,         \* count > 0
    result,         \* what the last call that returned has returned
    full,           \* the card has refused bytes of this put
    puts,           \* puts begun
    faults,         \* crashes, failed reads and full cards
    interrupted,    \* history: a crash has cut off a put
    short,          \* history: this put copies the file only up to a failed read
    due             \* history: what the new file has to hold, from the remove on

disk    == <<file, temp>>
call    == <<pc, arg, rpos, out, wpos, copied, result>>
history == <<puts, faults, interrupted, short, due>>
vars    == <<disk, call, full, history>>

NoSettings == <<>>

-----------------------------------------------------------------------------
(* Lines.                                                                   *)

Least(S) == CHOOSE i \in S : \A j \in S : i <= j

\* Only blanks are before p in its line.
Starts(f, p) ==
    \/ p = 1 \/ f[p - 1] = nl
    \/ f[p - 1] = blank /\ \E b \in 1..p - 1 :
        (b = 1 \/ f[b - 1] = nl) /\ \A i \in b..p - 1 : f[i] = blank

\* Where the lines of f are that start with the token t.
LinesWith(f, t) == {p \in DOMAIN f : f[p] = t /\ Starts(f, p)}

\* The last token of the line that p is in.
EndOfLine(f, p) ==
    CHOOSE e \in p..Len(f) :
        (e = Len(f) \/ f[e] = nl) /\ \A i \in p..e - 1 : f[i] # nl

\* _gets
Line(f, p) == SubSeq(f, p, EndOfLine(f, p))

SkipLeading(s) ==
    SubSeq(s, 1 + Cardinality({i \in DOMAIN s : \A j \in 1..i : s[j] = blank}), Len(s))

StripTrailing(s) ==
    SubSeq(s, 1, Cardinality({i \in DOMAIN s : \E j \in i..Len(s) : s[j] \notin {blank, nl}}))

-----------------------------------------------------------------------------
(* Values.                                                                  *)

\* write_quoted, and writekey with check_enquote.
NeedsQuotes(v) ==
    v # <<>> /\ (v[Len(v)] = blank \/ \E i \in DOMAIN v : v[i] \in Comment \cup {quote})

\* Mutant: a quote is not escaped.
QuotedOnly(v) == IF NeedsQuotes(v) THEN <<quote>> \o v \o <<quote>> ELSE v

Quoted(v) ==
    LET body[i \in 0..Len(v)] ==
            IF i = 0 THEN <<>>
            ELSE body[i - 1] \o (IF v[i] = quote THEN <<escape, quote>> ELSE <<v[i]>>)
    IN  IF NeedsQuotes(v) THEN <<quote>> \o body[Len(v)] \o <<quote>> ELSE v

\* What precedes a comment; a quotation may hold the character of one.
BeforeComment(s) ==
    LET pair(i) == i < Len(s) /\ s[i] \in {quote, escape} /\ s[i + 1] = quote
        \* p is a position, and whether it is in a quotation.
        end[p \in (1..Len(s) + 1) \X BOOLEAN] ==
            IF p[1] > Len(s) \/ (s[p[1]] \in Comment /\ ~p[2]) THEN p[1]
            ELSE IF pair(p[1]) THEN end[<<p[1] + 2, p[2]>>]
            ELSE end[<<p[1] + 1, p[2] # (s[p[1]] = quote)>>]
    IN  SubSeq(s, 1, end[<<1, FALSE>>] - 1)

\* save_strncpy(..., QUOTE_DEQUOTE)
Dequoted(s) ==
    LET pair(i) == i < Len(s) /\ s[i] \in {quote, escape} /\ s[i + 1] = quote
        from[i \in 1..Len(s) + 1] ==
            IF i > Len(s) THEN <<>>
            ELSE IF pair(i) THEN <<quote>> \o from[i + 2]
            ELSE <<s[i]>> \o from[i + 1]
    IN  from[1]

Unquoted(v) ==
    IF v # <<>> /\ v[1] = quote /\ v[Len(v)] = quote
    THEN Dequoted(SubSeq(v, 2, Len(v) - 1)) ELSE v

\* The value that is read from what follows the '='.
ValueOf(s) ==
    CHOOSE v \in {Unquoted(r) : r \in {StripTrailing(q) :
                    q \in {BeforeComment(p) : p \in {SkipLeading(s)}}}} : TRUE

\* The keys that getkeystring looks through: those in the first such section.
Candidates(f, section, key) ==
    {p \in LinesWith(f, key) : \E h \in LinesWith(f, section) :
        /\ h < p /\ \A q \in LinesWith(f, section) : h <= q
        /\ \A q \in h + 1..p - 1 : f[q] \in Headers => ~Starts(f, q)}

\* getkeystring: the value of the first of them.
Get(f, section, key) ==
    LET found == Candidates(f, section, key)
    IN  IF found = {} THEN Absent
        ELSE CHOOSE v \in {ValueOf(SubSeq(f, p + 1, EndOfLine(f, p))) : p \in {Least(found)}} : TRUE

\* ini_gets, on which ini_getl and ini_getlhex rest: what module_start and
\* zeroCtrlGetSlideConfig find; Absent is where they use their defaults.
Settings(f) == [e \in Headers \X Keys |-> Get(f, e[1], e[2])]

-----------------------------------------------------------------------------
Init ==
    /\ file \in InitialFiles
    /\ temp = Absent
    /\ pc = "idle" /\ arg = <<>>
    /\ rpos = 1 /\ out = <<>> /\ wpos = 1 /\ copied = FALSE
    /\ result = 1 /\ full = FALSE /\ puts = 0
    /\ faults = IF file \in FragileFiles THEN 0 ELSE MaxFaults
    /\ interrupted = FALSE /\ short = FALSE /\ due = NoSettings

-----------------------------------------------------------------------------
(* ini_puts, called by zeroCtrlSetSlideConfig.                              *)

Goto(from, to) == pc = from /\ pc' = to

\* Mutant: the convention of sceIo, 0 for success and -1 for failure.
ReturnSceIo(value) ==
    /\ pc' = "idle" /\ arg' = <<>> /\ result' = value - 1
    /\ rpos' = 1 /\ out' = <<>> /\ wpos' = 1 /\ copied' = FALSE

Return(value) ==
    /\ pc' = "idle" /\ arg' = <<>> /\ result' = value
    /\ rpos' = 1 /\ out' = <<>> /\ wpos' = 1 /\ copied' = FALSE

Call(key, value) ==
    /\ puts < MaxPuts
    /\ Goto("idle", "open")
    /\ arg' = <<key, value>>
    /\ full' = FALSE /\ short' = FALSE
    /\ puts' = puts + 1
    /\ UNCHANGED <<disk, rpos, out, wpos, copied, result, faults, interrupted, due>>

KeyLine == <<arg[1]>> \o Quoted(arg[2]) \o <<nl>>

\* Without a file: a new one, written in place.
OpenNew ==
    /\ pc = "open" /\ file = Absent
    /\ \/ /\ pc' = "create"
          /\ file' = <<>>
          /\ out' = <<<<Slide, nl>>, KeyLine>>
          /\ UNCHANGED <<arg, rpos, wpos, copied, result>>
       \/ Return(0) /\ UNCHANGED file
    /\ UNCHANGED <<temp, full, history>>

\* The setting has the value already.
OpenSame ==
    /\ pc = "open" /\ file # Absent /\ Get(file, Slide, arg[1]) = arg[2]
    /\ Return(1)
    /\ UNCHANGED <<disk, full, history>>

\* O_CREAT without O_TRUNC: a temporary file left by an earlier put keeps what
\* this one does not write over.  A search that a failed read ends has not found
\* the key.
OpenTemp ==
    /\ pc = "open" /\ file # Absent
    /\ \/ Get(file, Slide, arg[1]) # arg[2] /\ UNCHANGED faults
       \/ faults < MaxFaults /\ faults' = faults + 1
    /\ \/ /\ pc' = "section"
          /\ temp' = IF temp = Absent THEN <<>> ELSE temp
          /\ due' = NoSettings
          /\ UNCHANGED <<arg, rpos, out, wpos, copied, result>>
       \/ Return(0) /\ UNCHANGED <<temp, due>>
    /\ UNCHANGED <<file, full, puts, interrupted, short>>

\* The line that is read next, and whether something is left of it.
Read == SkipLeading(Line(file, rpos))

Blank(line) == line \in {<<>>, <<nl>>}

Opens(line, tokens) == ~Blank(line) /\ line[1] \in tokens

\* A line as it is copied: a blank one not at all, a section apart from the last.
Copy(line, apart) ==
    IF Blank(line) THEN <<>>
    ELSE IF Opens(line, Headers) /\ apart THEN <<<<nl>>, line>> ELSE <<line>>

Reading(loop) == pc = loop /\ out = <<>>

AtEnd == rpos > Len(file)

\* Mutant: _gets goes back by one character too many.
AdvanceShort ==
    /\ ~AtEnd
    /\ rpos' = rpos + Len(Line(file, rpos)) - 1
    /\ UNCHANGED <<disk, arg, wpos, result, full, history>>

Advance ==
    /\ ~AtEnd
    /\ rpos' = rpos + Len(Line(file, rpos))
    /\ UNCHANGED <<disk, arg, wpos, result, full, history>>

\* The first loop: up to the section.
FindSection ==
    /\ Reading("section") /\ Advance
    /\ out' = Copy(Read, copied)
    /\ copied' = (copied \/ ~Blank(Read))
    /\ pc' = IF Opens(Read, {Slide}) THEN "key" ELSE "section"

\* The second loop: up to the key, or to the section after, before which the
\* key is put.
FindKey ==
    /\ Reading("key") /\ Advance
    /\ \/ /\ Opens(Read, {arg[1]})
          /\ out' = <<KeyLine>> /\ pc' = "rest"
       \/ /\ Opens(Read, Headers)
          /\ out' = <<<<arg[1]>>, Quoted(arg[2]), <<nl, nl>>, Read>> /\ pc' = "rest"
       \/ /\ ~Opens(Read, Headers \cup {arg[1]})
          /\ out' = Copy(Read, FALSE) /\ UNCHANGED pc
    /\ UNCHANGED copied

\* The third loop: the rest.
CopyRest ==
    /\ Reading("rest") /\ Advance
    /\ out' = Copy(Read, TRUE)
    /\ UNCHANGED <<pc, copied>>

\* Where each loop has no next line: what is still missing goes to the end.
NoLine ==
    /\ \/ Reading("section") /\ out' = <<<<nl>>, <<Slide, nl>>, KeyLine>>
       \/ Reading("key") /\ out' = <<<<nl>>, KeyLine>>
       \/ Reading("rest") /\ out' = <<>>
    /\ pc' = "remove"
    /\ UNCHANGED <<disk, arg, rpos, wpos, copied, result, full>>

EndOfFile == AtEnd /\ NoLine /\ UNCHANGED history

\* _gets returns NULL for an error as it does for the end of the file.
ReadFails ==
    /\ ~AtEnd /\ NoLine
    /\ faults < MaxFaults /\ faults' = faults + 1
    /\ short' = TRUE
    /\ UNCHANGED <<puts, interrupted, due>>

\* The file f after the first n tokens of piece were written at position p.
Overwrite(f, p, piece, n) ==
    SubSeq(f, 1, p - 1) \o SubSeq(piece, 1, n) \o SubSeq(f, p + n, Len(f))

WriteTo(f, n) ==
    IF pc = "create" THEN file' = Overwrite(f, wpos, Head(out), n) /\ UNCHANGED temp
    ELSE temp' = Overwrite(f, wpos, Head(out), n) /\ UNCHANGED file

\* ini_write, of one piece.  A full card takes only what needs no room.
Write ==
    LET f    == IF pc = "create" THEN file ELSE temp
        room == Len(f) - (wpos - 1)
        all  == Len(Head(out))
    IN  /\ out # <<>>
        /\ \E n \in 0..all :
              /\ \/ ~full /\ n = all /\ UNCHANGED <<full, faults>>
                 \/ /\ ~full /\ n < all /\ n >= room /\ faults < MaxFaults
                    /\ full' = TRUE /\ faults' = faults + 1
                 \/ /\ full /\ n = (IF room < all THEN room ELSE all)
                    /\ UNCHANGED <<full, faults>>
              /\ WriteTo(f, n)
              /\ wpos' = wpos + n
        /\ out' = Tail(out)
        /\ UNCHANGED <<pc, arg, rpos, copied, result, puts, interrupted, short, due>>

Created ==
    /\ Reading("create") /\ Return(1)
    /\ UNCHANGED <<disk, full, history>>

\* Mutant: the file is removed before the rest of the new one is written.
RemoveEarly ==
    /\ Goto("remove", "rename")
    /\ file' = Absent
    /\ due' = IF full \/ short THEN NoSettings ELSE [Settings(file) EXCEPT ![<<Slide, arg[1]>>] = arg[2]]
    /\ UNCHANGED <<temp, arg, rpos, out, wpos, copied, result, full, puts, faults, interrupted, short>>

Remove ==
    /\ out = <<>> /\ Goto("remove", "rename")
    /\ file' = Absent
    /\ due' = IF full \/ short THEN NoSettings ELSE [Settings(file) EXCEPT ![<<Slide, arg[1]>>] = arg[2]]
    /\ UNCHANGED <<temp, arg, rpos, out, wpos, copied, result, full, puts, faults, interrupted, short>>

Rename ==
    /\ pc = "rename" /\ Return(1)
    /\ file' = temp /\ temp' = Absent
    /\ due' = NoSettings
    /\ UNCHANGED <<full, puts, faults, interrupted, short>>

IniPuts == \/ OpenNew \/ OpenSame \/ OpenTemp \/ FindSection \/ FindKey \/ CopyRest
           \/ EndOfFile \/ ReadFails \/ Write \/ Created \/ Remove \/ Rename

\* The power fails, and the console is started again.
Crash ==
    /\ pc # "idle" /\ faults < MaxFaults
    /\ Return(result)
    /\ faults' = faults + 1
    /\ interrupted' = TRUE
    /\ UNCHANGED <<disk, full, puts, short, due>>

Next == IniPuts \/ Crash \/ \E key \in Puts, value \in Values : Call(key, value)

Spec == Init /\ [][Next]_vars

\* The thread in ini_puts runs on.
FairSpec == Spec /\ WF_vars(IniPuts)

-----------------------------------------------------------------------------
(* Properties.                                                              *)

TypeOK ==
    /\ file \in Seq(Tokens) \cup {Absent} /\ temp \in Seq(Tokens) \cup {Absent}
    /\ pc \in {"idle", "open", "create", "section", "key", "rest", "remove", "rename"}
    /\ arg \in (Puts \X Values) \cup {<<>>}
    /\ rpos \in Nat \ {0} /\ wpos \in Nat \ {0}
    /\ out \in Seq(Seq(Tokens))
    /\ copied \in BOOLEAN /\ full \in BOOLEAN /\ result \in {0, 1}
    /\ puts \in 0..MaxPuts /\ faults \in 0..MaxFaults
    /\ interrupted \in BOOLEAN /\ short \in BOOLEAN

\* A put sets its key and keeps every other entry, with the exceptions that
\* ConfigStore states: where the power fails, between the remove and the rename
\* the file is gone; where the card is full or a read fails, entries are lost.
\* Faults, at most MaxFaults of them, meet only the FragileFiles: on a file
\* whose last line has no end, a put after a crash may change another entry
\* (RestCopied).  Without faults it holds for every file (minIni.c:526-682).
Store == INSTANCE ConfigStore WITH
    Entries <- Headers \X Keys,
    None <- Absent,
    store <- Settings(file),
    request <- IF pc = "idle" THEN <<>> ELSE <<<<Slide, arg[1]>>, arg[2]>>,
    next <- IF pc = "rename" THEN Settings(temp) ELSE <<>>,
    incomplete <- full \/ short

KeepsStore == Store!Spec

\* A crash that loses the file loses nothing, unless the card was full or a read
\* had failed: until another put opens the temporary file, that file holds every
\* entry (minIni.c:565, 677-680).
RescueCopy ==
    due # NoSettings => \A e \in Headers \X Keys :
        \/ Settings(temp)[e] = due[e]
        \/ due[e] = Absent /\ interrupted

\* Every put comes to its end (the three loops, minIni.c:577-673).
PutsReturn == pc # "idle" ~> pc = "idle"

\* The new file is a copy of the old one: where the card has room and is read to
\* the end, no entry but the one that is put differs (minIni.c:592, 666).
RestCopied ==
    pc = "remove" /\ out = <<>> /\ ~full /\ ~short => \A e \in Headers \X Keys :
        e # <<Slide, arg[1]>> => Settings(temp)[e] = Settings(file)[e]
=============================================================================
