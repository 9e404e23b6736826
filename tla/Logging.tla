------------------------------- MODULE Logging -------------------------------
(***************************************************************************)
(* Log (Log.cc, Log.h) and the console it writes to (console.c).  One      *)
(* message is written at a time; write() goes through format(), with one   *)
(* step for each turn of its loops, multicast() and, for the console, one  *)
(* step for each character.  A message is a sequence of items: a literal   *)
(* character, or a conversion with its width and its argument.  Characters *)
(* are one-character strings.                                              *)
(***************************************************************************)
EXTENDS Integers, SequencesExt

CONSTANTS
    MAX_WRITE_BUFFER, MAX_LOG_WRITERS, KCON_WIDTH, KCON_HEIGHT,
    Messages, Warning,  \* what is written; what a full writer table warns with
    Levels,             \* of Trace (0) to Fatal (4)
    Writers,            \* other writers than the console
    Char,               \* characters
    INT, LONG           \* 2^32 and 2^64: the values of the argument types

(* Items of a message: "lit" is a literal character, "null" a %s without a
   text, "?" an unknown conversion. *)
MsgItem == [k : {"lit", "d", "u", "x", "p", "c", "s", "null", "?"},
            text : Seq(Char), arg : Int, width : Nat]

DigitChar == <<"0", "1", "2", "3", "4", "5", "6", "7", "8", "9", "a", "b", "c", "d", "e", "f">>
DigitChars == {DigitChar[d] : d \in 1..16}
Blank == " "
Newline == "\n"
CarriageReturn == "\r"

ASSUME LoggingAssumption ==
    /\ {MAX_WRITE_BUFFER, MAX_LOG_WRITERS, KCON_WIDTH, KCON_HEIGHT, INT, LONG} \subseteq Nat \ {0}
    /\ Levels \subseteq 0..4 /\ 0 \in Levels
    /\ {"-", "x", "(", ")", "?", Blank} \cup DigitChars \subseteq Char
    /\ Messages \subseteq Seq(MsgItem) /\ Warning \in Messages
    /\ \A msg \in Messages : \A i \in 1..Len(msg) :
          msg[i].k = "lit" => Len(msg[i].text) = 1 /\ msg[i].width = 0
    /\ \A t \in {INT, LONG} : \E n \in 1..16 : t = 16^n

VARIABLES
    intmax,             \* values of intmax_t: INT on x86, LONG on x86_64
    level, writers,
    writing,            \* the running write(): phase, msg and the variables of format()
    screen,             \* cells
    kcon_x, kcon_y, vram,   \* __kcon_x, __kcon_y; vram_current
    crash,              \* "no", "aborted", or "overrun": the stack is damaged
    lines, returned     \* history: the text as lines, up to a '\r'

console == <<screen, kcon_x, kcon_y, vram, lines, returned>>
logVars == <<intmax, level, writers, writing, crash, console>>

Kcon == "kcon"
NoWriter == "none"
Slots == 1..MAX_LOG_WRITERS
WarningLevel == 2
FatalLevel == 4
Cells == 0..(KCON_WIDTH * KCON_HEIGHT - 1)
NoWrite == [phase |-> "idle", msg |-> <<>>, fmt |-> <<>>, out |-> <<>>, append |-> <<>>,
            len |-> 0, slot |-> 1, fatal |-> FALSE]

(* Entry.cc adds the console as the first writer, and sets the level. *)
LogInit ==
    /\ intmax \in {INT, LONG}
    /\ level = 0
    /\ writers = [i \in Slots |-> IF i = 1 THEN Kcon ELSE NoWriter]
    /\ writing = NoWrite
    /\ screen = [c \in Cells |-> Blank] /\ kcon_x = 0 /\ kcon_y = 0 /\ vram = 0
    /\ crash = "no"
    /\ lines = <<<<>>>> /\ returned = FALSE
-----------------------------------------------------------------------------
(* parse_u(): the digits from the lowest on, filled up to the width, reversed. *)
parse_u_NoZero(num, base, fill, width) ==
    LET Low[n \in 0..num] ==
            IF n = 0 THEN <<>> ELSE <<DigitChar[(n % base) + 1]>> \o Low[n \div base]
    IN  Reverse(Low[num] \o [i \in 1..(width - Len(Low[num])) |-> fill])
parse_u(num, base, fill, width) ==
    LET Low[n \in 0..num] ==
            <<DigitChar[(n % base) + 1]>> \o (IF n < base THEN <<>> ELSE Low[n \div base])
    IN  Reverse(Low[num] \o [i \in 1..(width - Len(Low[num])) |-> fill])

parse_s(num, base, fill, width) ==
    IF num < 0
    THEN <<"-">> \o parse_u(-num, base, fill, IF width = 0 THEN 0 ELSE width - 1)
    ELSE parse_u(num, base, fill, width)

(* The argument as an uintmax_t or an intmax_t, which have m values. *)
Unsigned(v, m) == v % m
Signed(v, m) == IF Unsigned(v, m) < m \div 2 THEN Unsigned(v, m) ELSE Unsigned(v, m) - m
PtrDigits(m) == CHOOSE n \in 1..16 : m = 16^n       \* sizeof(uintmax_t) * 2

(* What the switch of format() makes append point to.  The two fixed texts
   are abbreviated. *)
Converted(item, m) ==
    CASE item.k \in {"d", "u"} -> parse_s(Signed(item.arg, m), 10, Blank, item.width)
      [] item.k = "x" -> parse_u(Unsigned(item.arg, m), 16, "0", item.width)
      [] item.k = "p" -> <<"0", "x">> \o parse_u(Unsigned(item.arg, m), 16, "0", PtrDigits(m))
      [] item.k \in {"c", "s"} -> item.text
      [] item.k = "null" -> <<"(", ")">>
      [] item.k = "?" -> <<"(", "?", ")">>
-----------------------------------------------------------------------------
In(phase) == crash = "no" /\ writing.phase = phase
Width == Head(writing.fmt).width

(* The condition of CHECKED_APPEND: for a literal len is the size of the buffer,
   in the block of a string it is the counter of that block. *)
CHECKED_APPEND(out, c, len) == IF Len(out) < len THEN Append(out, c) ELSE out

(* The end of a turn of format(): it breaks out when the buffer is full, and
   writes the terminator behind the text. *)
Ended(c) ==
    /\ writing' = IF c.fmt # <<>> /\ Len(c.out) < MAX_WRITE_BUFFER
               THEN [c EXCEPT !.phase = "items"] ELSE [c EXCEPT !.phase = "cast"]
    /\ crash' \in IF writing'.phase = "cast" /\ Len(c.out) >= MAX_WRITE_BUFFER
                    THEN {"no", "overrun"} ELSE {"no"}

Write(msg, fatal) ==
    /\ Ended([NoWrite EXCEPT !.msg = msg, !.fmt = msg, !.fatal = fatal])
    /\ UNCHANGED <<intmax, console>>

(* KTRACE ... KFATAL. *)
KLOG(lvl, msg) ==
    /\ In("idle") /\ level <= lvl
    /\ Write(msg, lvl = FatalLevel)
    /\ UNCHANGED <<level, writers>>

setLevel(lvl) ==
    /\ In("idle") /\ lvl # level
    /\ level' = lvl
    /\ UNCHANGED <<intmax, writers, writing, crash, console>>

Warn ==
    /\ UNCHANGED <<level, writers>>
    /\ IF level <= WarningLevel THEN Write(Warning, FALSE)
       ELSE UNCHANGED <<intmax, writing, crash, console>>

FirstSlot(w) == CHOOSE i \in Slots : writers[i] = w /\ \A j \in 1..(i - 1) : writers[j] # w
SetWriter(old, new) ==
    /\ writers' = [writers EXCEPT ![FirstSlot(old)] = new]
    /\ UNCHANGED <<intmax, level, writing, crash, console>>

addWriter(w) ==
    /\ In("idle")
    /\ IF \E i \in Slots : writers[i] = NoWriter THEN SetWriter(NoWriter, w) ELSE Warn

removeWriter(w) ==
    /\ In("idle")
    /\ IF \E i \in Slots : writers[i] = w THEN SetWriter(w, NoWriter) ELSE Warn

FormatItem ==
    /\ In("items")
    /\ LET item == Head(writing.fmt) IN
       IF item.k = "lit"
       THEN Ended([writing EXCEPT !.out = CHECKED_APPEND(@, item.text[1], MAX_WRITE_BUFFER),
                               !.fmt = Tail(@)])
       ELSE /\ writing' = [writing EXCEPT !.append = Converted(item, intmax), !.len = 0, !.phase = "string"]
            /\ UNCHANGED crash
    /\ UNCHANGED <<intmax, level, writers, console>>

(* The loop over the string counts len up, also in the turns in which nothing
   is taken; append moves on only when a character is. *)
StringTurn_AlwaysAdvances ==
    /\ In("string") /\ writing.append # <<>>
    /\ writing' = [writing EXCEPT !.out = CHECKED_APPEND(@, Head(writing.append), writing.len),
                            !.append = Tail(@), !.len = @ + 1]
    /\ UNCHANGED <<intmax, level, writers, crash, console>>
StringTurn ==
    /\ In("string") /\ writing.append # <<>>
    /\ writing' = [writing EXCEPT !.out = CHECKED_APPEND(@, Head(writing.append), writing.len),
                            !.append = IF Len(writing.out) < writing.len THEN Tail(@) ELSE @,
                            !.len = @ + 1]
    /\ UNCHANGED <<intmax, level, writers, crash, console>>

PadTurn ==
    /\ In("string") /\ writing.append = <<>>
    /\ IF writing.len < Width
       THEN /\ writing' = [writing EXCEPT !.out = CHECKED_APPEND(@, Blank, writing.len + 1), !.len = @ + 1]
            /\ UNCHANGED crash
       ELSE Ended([writing EXCEPT !.fmt = Tail(@)])
    /\ UNCHANGED <<intmax, level, writers, console>>
-----------------------------------------------------------------------------
(* What the text should look like on the screen: the last lines of it. *)
LayoutChar(ls, c) ==
    LET line == Append(Last(ls), c)
        typed == IF c = Newline THEN ls ELSE [ls EXCEPT ![Len(ls)] = line]
        broken == IF c = Newline \/ Len(line) >= KCON_WIDTH THEN Append(typed, <<>>) ELSE typed
    IN  IF Len(broken) > KCON_HEIGHT THEN Tail(broken) ELSE broken

CALC_LOCATION(cx, cy) == KCON_WIDTH * cy + cx

(* multicast(): one step per slot; after the last one KFATAL aborts. *)
Multicast ==
    /\ In("cast")
    /\ IF writing.slot > MAX_LOG_WRITERS
       THEN /\ writing' = NoWrite
            /\ crash' = IF writing.fatal THEN "aborted" ELSE "no"
            /\ UNCHANGED vram
       ELSE /\ writing' = [writing EXCEPT !.slot = @ + 1, !.append = writing.out,
                            !.phase = IF writers[writing.slot] = Kcon THEN "screen" ELSE "cast"]
            /\ vram' = IF writers[writing.slot] = Kcon THEN CALC_LOCATION(kcon_x, kcon_y) ELSE vram
            /\ UNCHANGED crash
    /\ UNCHANGED <<intmax, level, writers, screen, kcon_x, kcon_y, lines, returned>>

(* __kcon_scroll1() *)
Scrolled(s) ==
    [c \in Cells |-> IF c + KCON_WIDTH \in Cells THEN s[c + KCON_WIDTH] ELSE Blank]

(* vram_current behind the character: the new location less one, incremented. *)
Advanced_NoStepBack(moved, location) == (IF moved THEN location ELSE vram) + 1
Advanced(moved, location) == (IF moved THEN location - 1 ELSE vram) + 1

(* One turn of __kcon_write(): what is written behind the screen is not seen.
   A '\r' moves the column, and not the address that is written to. *)
KconChar ==
    /\ In("screen") /\ writing.append # <<>>
    /\ LET c == Head(writing.append)
           shown == c # Newline /\ c # CarriageReturn
           col == IF shown THEN kcon_x + 1 ELSE kcon_x
           wraps == col >= KCON_WIDTH \/ ~shown
           down == wraps /\ c # CarriageReturn
           row == IF down THEN kcon_y + 1 ELSE kcon_y
           scrolls == row >= KCON_HEIGHT
           drawn == IF shown /\ vram \in Cells THEN [screen EXCEPT ![vram] = c] ELSE screen
       IN  /\ kcon_x' = IF wraps THEN 0 ELSE col
           /\ kcon_y' = IF scrolls THEN KCON_HEIGHT - 1 ELSE row
           /\ screen' = IF scrolls THEN Scrolled(drawn) ELSE drawn
           /\ vram' = Advanced(down \/ scrolls, CALC_LOCATION(kcon_x', kcon_y'))
           /\ returned' = (returned \/ c = CarriageReturn)
           /\ lines' = IF returned' THEN <<<<>>>> ELSE LayoutChar(lines, c)
    /\ writing' = [writing EXCEPT !.append = Tail(@)]
    /\ UNCHANGED <<intmax, level, writers, crash>>

KconReturn ==
    /\ In("screen") /\ writing.append = <<>>
    /\ writing' = [writing EXCEPT !.phase = "cast"] /\ vram' = 0
    /\ UNCHANGED <<intmax, level, writers, crash, screen, kcon_x, kcon_y, lines, returned>>

Crashed == crash # "no" /\ UNCHANGED logVars

LogNext ==
    \/ \E lvl \in Levels : setLevel(lvl) \/ \E msg \in Messages : KLOG(lvl, msg)
    \/ \E w \in Writers \cup {Kcon} : addWriter(w) \/ removeWriter(w)
    \/ FormatItem \/ StringTurn \/ PadTurn \/ Multicast \/ KconChar \/ KconReturn
    \/ Crashed

LogSpec == LogInit /\ [][LogNext]_logVars
-----------------------------------------------------------------------------
LogTypeOK ==
    /\ intmax \in {INT, LONG} /\ level \in Levels
    /\ writers \in [Slots -> Writers \cup {Kcon, NoWriter}]
    /\ writing.phase \in {"idle", "items", "string", "cast", "screen"}
    /\ crash \in {"no", "aborted", "overrun"} /\ returned \in BOOLEAN

(* How many blanks follow a text of n characters that starts at column k. *)
Padding(k, n, width) ==
    LET blanks == IF n = 0 THEN width - k ELSE width - (k + 1 + n)
    IN  IF blanks > 0 THEN blanks ELSE 0

Extended(t, item, m) ==
    LET s == IF item.k = "lit" THEN item.text ELSE Converted(item, m)
    IN  t \o s \o [i \in 1..Padding(Len(t), Len(s), item.width) |-> Blank]

(* The text of a message, or its part up to the item that fills the buffer. *)
TextUpTo(msg, m, cut) ==
    LET t[n \in 0..Len(msg)] ==
            IF n = 0 THEN <<>>
            ELSE IF cut /\ Len(t[n - 1]) >= MAX_WRITE_BUFFER THEN t[n - 1]
            ELSE Extended(t[n - 1], msg[n], m)
    IN  t
Text(msg, m, cut) == TextUpTo(msg, m, cut)[Len(msg)]

(* Log.cc 97-182: every writer gets the text of the message, cut only behind
   the item that fills the buffer, although a text is appended by counting up
   to the place where it goes; and the buffer is overrun by no message whose
   text and terminator fit in it. *)
TextExact ==
    /\ LogTypeOK
    /\ writing.phase \in {"cast", "screen"} => writing.out = Text(writing.msg, intmax, TRUE)
    /\ crash = "overrun" => Len(Text(writing.msg, intmax, FALSE)) >= MAX_WRITE_BUFFER

(* The number that a text reads as, taken digit by digit. *)
DigitValue(c) == CHOOSE d \in 0..15 : DigitChar[d + 1] = c
Reading(s, base) ==
    LET value[i \in 0..Len(s)] ==
            IF i = 0 THEN 0
            ELSE IF s[i] \in DigitChars THEN value[i - 1] * base + DigitValue(s[i])
            ELSE value[i - 1]
    IN  IF s # <<>> /\ s[1] = "-" THEN -value[Len(s)] ELSE value[Len(s)]

Fits(item) ==
    IF item.k = "x" THEN 0 <= item.arg /\ item.arg < intmax
    ELSE -(intmax \div 2) <= item.arg /\ item.arg < intmax \div 2

(* Log.cc 38-83, 129-141: the text of a number reads as the argument modulo
   the values of intmax_t, as the argument itself when it is an intmax_t (or
   for %x an uintmax_t), and is as wide as asked for. *)
NumbersRead ==
    writing.phase = "string" /\ writing.len = 0 /\ Head(writing.fmt).k \in {"d", "u", "x"} =>
        LET item == Head(writing.fmt)
            n == Reading(writing.append, IF item.k = "x" THEN 16 ELSE 10)
        IN  /\ (n - item.arg) % intmax = 0
            /\ Fits(item) => n = item.arg
            /\ \E i \in 1..Len(writing.append) : writing.append[i] \in DigitChars
            /\ Len(writing.append) >= item.width

(* console.c 36-80: whenever a character has been written, the screen shows
   the last lines of everything written so far, and the cursor is behind it,
   as long as no '\r' was among it; with one, the cursor at least stays on the
   screen. *)
ScreenIsTail ==
    /\ kcon_x < KCON_WIDTH /\ kcon_y < KCON_HEIGHT
    /\ ~returned =>
        /\ kcon_x = Len(Last(lines)) /\ kcon_y = Len(lines) - 1
        /\ \A r \in 1..KCON_HEIGHT, c \in 1..KCON_WIDTH :
            screen[CALC_LOCATION(c - 1, r - 1)] =
                IF r <= Len(lines) /\ c <= Len(lines[r]) THEN lines[r][c] ELSE Blank
=============================================================================
