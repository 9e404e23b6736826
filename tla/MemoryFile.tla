----------------------------- MODULE MemoryFile -----------------------------
(***************************************************************************)
(* A range of memory read and written as a file, MemoryFileAdapter, on the *)
(* functions of MemoryHelper, which are also called on their own.  There   *)
(* are WORD addresses and as many offsets; unsigned arithmetic is modulo   *)
(* WORD, signed values are those from -WORD/2 on.  The string instructions *)
(* work byte by byte in the direction of the processor's direction flag,   *)
(* which stays as the last of them has set it.  What a call does to memory *)
(* is an operator, used by the action of the call and by the properties.   *)
(***************************************************************************)
EXTENDS Integers

CONSTANTS
    WORD,               \* 2^64 (2^32 on x86)
    fBase, length,      \* of the file
    Byte,               \* byte values
    Counts              \* numbers of bytes that callers ask for

ASSUME MemoryFileAssumption ==
    /\ WORD \in Nat \ {0} /\ WORD % 2 = 0
    /\ fBase \in 0..(WORD - 1) /\ length \in 0..(WORD \div 2 - 1) /\ fBase + length < WORD
    /\ Counts \subseteq 0..(WORD - 1) /\ 0 \in Byte

VARIABLES
    mem,
    df,                 \* 1 forwards, -1 backwards
    curOff,
    strayed             \* history: a relative seek or a count wrapped around

fileVars == <<mem, df, curOff, strayed>>

Addr == 0..(WORD - 1)
Offsets == -(WORD \div 2)..(WORD \div 2 - 1)
Wrap(n) == n % WORD
WrapSigned(n) == IF Wrap(n) < WORD \div 2 THEN Wrap(n) ELSE Wrap(n) - WORD

FileInit ==
    /\ mem \in [Addr -> Byte] /\ df = 1
    /\ curOff = 0 /\ strayed = FALSE
-----------------------------------------------------------------------------
(* rep movsb and rep stosb: m[i] is the memory after i bytes. *)
Movsb(m, s, d) == [m EXCEPT ![Wrap(d)] = m[Wrap(s)]]
Stosb(m, d, byte) == [m EXCEPT ![Wrap(d)] = byte]
RepMovsb(s, d, n, dir) ==
    LET m[i \in 0..n] ==
            IF i = 0 THEN mem ELSE Movsb(m[i - 1], s + dir * (i - 1), d + dir * (i - 1))
    IN  m[n]
RepStosb(d, byte, n, dir) ==
    LET m[i \in 0..n] ==
            IF i = 0 THEN mem ELSE Stosb(m[i - 1], d + dir * (i - 1), byte)
    IN  m[n]

Copied(s, d, n) == RepMovsb(s, d, n, 1)

(* move(): forwards when the ranges overlap, else backwards from the last byte. *)
MovesForward(s, d, n) == (s < d /\ s + n - 1 > d) \/ (d < s /\ d + n - 1 > s)
Moved(s, d, n) ==
    IF MovesForward(s, d, n) THEN RepMovsb(s, d, n, 1)
    ELSE RepMovsb(s + n - 1, d + n - 1, n, -1)

(* fill(), and zero() with it. *)
Filled_NoCld(d, byte, n) == RepStosb(d, byte, n, df)
Filled(d, byte, n) == RepStosb(d, byte, n, 1)

(* copy() and move() return at once for no bytes; move() leaves df set. *)
copy(s, d, n) ==
    /\ mem' = Copied(s, d, n) /\ df' = IF n = 0 THEN df ELSE 1
    /\ UNCHANGED <<curOff, strayed>>

move(s, d, n) ==
    /\ mem' = Moved(s, d, n)
    /\ df' = IF n = 0 THEN df ELSE IF MovesForward(s, d, n) THEN 1 ELSE -1
    /\ UNCHANGED <<curOff, strayed>>

fill(d, byte, n) ==
    /\ mem' = Filled(d, byte, n) /\ df' = 1
    /\ UNCHANGED <<curOff, strayed>>

(* find() looks at the bytes 1 to n in turn, rfind() at n - 1 to 0; the set is
   the address it returns, empty for 0. *)
First(hits) == {h \in hits : \A g \in hits : h <= g}
Matches(from, to, byte) == {a \in from..to : mem[Wrap(a)] = byte}
find(a, byte, n) == First(Matches(a + 1, a + n, byte))
rfind(a, byte, n) == {h \in Matches(a, a + n - 1, byte) : Matches(h + 1, a + n - 1, byte) = {}}
-----------------------------------------------------------------------------
(* How many bytes read() and write() transfer, and to where. *)
BytesToCopy_NoCheck(n) == n
BytesToCopy(n) == IF Wrap(curOff + n) > length THEN Wrap(length - curOff) ELSE n

Read(buffer, n) == Copied(Wrap(fBase + curOff), buffer, BytesToCopy(n))
Written(buffer, n) == Copied(buffer, Wrap(fBase + curOff), BytesToCopy(n))

Transfer(n) ==
    /\ df' = IF BytesToCopy(n) = 0 THEN df ELSE 1
    /\ curOff' = Wrap(curOff + BytesToCopy(n))
    /\ strayed' = (strayed \/ curOff + n >= WORD)

read(buffer, n) == mem' = Read(buffer, n) /\ Transfer(n)
write(buffer, n) == mem' = Written(buffer, n) /\ Transfer(n)

(* seek(): relative to the end it checks the offset against the length, and
   moves from where it is.  A refused seek returns -1. *)
Seek_Set(offset) ==
    /\ 0 <= offset /\ offset <= length
    /\ curOff' = offset
    /\ UNCHANGED <<mem, df, strayed>>

MoveBy(offset) ==
    /\ curOff' = Wrap(curOff + offset)
    /\ strayed' = (strayed \/ curOff + offset < 0)
    /\ UNCHANGED <<mem, df>>

Seek_Current(offset) ==
    WrapSigned(WrapSigned(curOff) + offset) >= 0 /\ Wrap(curOff + offset) <= length /\ MoveBy(offset)

Seek_End(offset) == offset <= 0 /\ Wrap(-offset) <= length /\ MoveBy(offset)

FileNext ==
    \/ \E s, d \in Addr, n \in Counts :
        s + n <= WORD /\ d + n <= WORD /\ (copy(s, d, n) \/ move(s, d, n))
    \/ \E a \in Addr, byte \in Byte, n \in Counts : a + n <= WORD /\ fill(a, byte, n)
    \/ \E buffer \in Addr, n \in Counts : read(buffer, n) \/ write(buffer, n)
    \/ \E offset \in Offsets : Seek_Set(offset) \/ Seek_Current(offset) \/ Seek_End(offset)

FileSpec == FileInit /\ [][FileNext]_fileVars
-----------------------------------------------------------------------------
FileTypeOK ==
    /\ mem \in [Addr -> Byte] /\ df \in {1, -1}
    /\ curOff \in Addr /\ strayed \in BOOLEAN

(* What a transfer of n bytes from s to d should leave. *)
Ideal(s, d, n) == [a \in Addr |-> IF a \in d..(d + n - 1) THEN mem[s + a - d] ELSE mem[a]]
Apart(s, d, n) == s + n <= d \/ d + n <= s

(* MemoryFileAdapter.cc 7-53: whatever was read, written and sought before,
   the position is in the file, and read() and write() transfer exactly what
   is left of it up to the number asked for.  The exceptions: a seek relative
   to the end that went below the start, and a number of bytes so large that
   it wraps around. *)
FileExact ==
    /\ FileTypeOK
    /\ ~strayed =>
        /\ curOff <= length
        /\ \A buffer \in Addr, n \in Counts :
            LET k == IF n < length - curOff THEN n ELSE length - curOff IN
            curOff + n < WORD /\ buffer + k <= WORD /\ Apart(buffer, fBase + curOff, k) =>
                /\ Read(buffer, n) = Ideal(fBase + curOff, buffer, k)
                /\ Written(buffer, n) = Ideal(buffer, fBase + curOff, k)

(* Overlapping ranges that move() gets wrong: up, and down by all but a byte. *)
MovedWrong(s, d, n) == (s < d /\ s + n - 1 > d) \/ (d < s /\ d + n - 1 = s)

(* MemoryHelper.cc 7-62: whatever was called before, and however it left the
   direction flag, a call has the effect its name says and no other: copy()
   for separate ranges, move() for all but the two overlaps named above,
   fill() always; rfind() finds the last such byte, and find() the first one,
   unless that is the very first byte, or none and the byte behind matches. *)
CallsExact ==
    \A a \in Addr, n \in Counts : a + n <= WORD =>
        /\ \A d \in Addr : d + n <= WORD =>
            /\ Apart(a, d, n) => Copied(a, d, n) = Ideal(a, d, n)
            /\ ~MovedWrong(a, d, n) => Moved(a, d, n) = Ideal(a, d, n)
        /\ \A byte \in Byte :
            /\ Filled(a, byte, n) = [b \in Addr |-> IF b \in a..(a + n - 1) THEN byte ELSE mem[b]]
            /\ \A h \in rfind(a, byte, n) : h \in a..(a + n - 1) /\ mem[h] = byte
            /\ rfind(a, byte, n) = {} => byte \notin {mem[b] : b \in a..(a + n - 1)}
            /\ mem[a] # byte /\ mem[Wrap(a + n)] # byte =>
                  find(a, byte, n) = First(Matches(a, a + n - 1, byte))
=============================================================================
