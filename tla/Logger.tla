------------------------------- MODULE Logger -------------------------------
(* base/LogStream and base/Logging: a log statement makes a Logger, whose   *)
(* LogStream collects a line in a FixedBuffer of fixed size; what does not  *)
(* fit is left out silently, and the destructor hands the line to the       *)
(* output.  Text is modelled by its length; the conversion of integers,     *)
(* which the code does by hand, digit by digit.                             *)
EXTENDS Integers, Sequences

CONSTANTS SIZE,            \* kSmallBuffer, 4000 in the code
          kMaxNumericSize, \* 32 in the code
          Bits,            \* width of the widest integer type
          Magnitudes,      \* magnitudes of the integers a statement may print
          TextLens,        \* lengths of the strings a statement may print
          DoubleLens,      \* lengths "%.12g" may have
          Seconds,         \* seconds the clock may show, in any order
          MaxOffered       \* bound: a statement ends once it printed as much

TimeLen == 17  \* "20140630 12:00:00"
UsLen == 9     \* ".000000Z "
TidLen == 6    \* "%5d ", for thread ids of at most five digits
LevelLen == 6  \* LogLevelName

(* The levels TRACE, DEBUG, INFO, WARN, ERROR, FATAL are 1..6; a statement  *)
(* is LOG_TRACE..LOG_FATAL, 1..6, or LOG_SYSERR, LOG_SYSFATAL, 7 and 8.     *)
INFO == 3
FATAL == 6
LevelOf(s) == IF s <= FATAL THEN s ELSE s - 2

-----------------------------------------------------------------------------
(* detail::convert() and convertHex(): digits are produced from the last to *)
(* the first with C++'s division, which rounds towards zero, so that the    *)
(* remainder of a negative number is negative; zero[] undoes the sign.      *)
Integer == -(2^(Bits - 1))..(2^Bits - 1)
Numbers == Integer \cap (Magnitudes \cup {-m : m \in Magnitudes})
Minus == 16

Quotient(i, base) == IF i < 0 THEN -((-i) \div base) ELSE i \div base
Remainder(i, base) == i - base * Quotient(i, base)
Magnitude(i) == IF i < 0 THEN -i ELSE i

LowFirst[base \in {10, 16}, i \in Integer] ==
    <<Magnitude(Remainder(i, base))>>
        \o (IF Quotient(i, base) = 0 THEN <<>> ELSE LowFirst[base, Quotient(i, base)])

Reversed(s) == [k \in 1..Len(s) |-> s[Len(s) + 1 - k]]

(* Mutant: the sign is looked for in i, which is 0 by then.                 *)
convertWithoutSign(value) == Reversed(LowFirst[10, value])

convert(value) ==
    Reversed(LowFirst[10, value] \o (IF value < 0 THEN <<Minus>> ELSE <<>>))
convertHex(value) == Reversed(LowFirst[16, value])

(* What LogStream::staticCheck() is about: a converted number and its       *)
(* terminating zero fit in kMaxNumericSize.                                 *)
ASSUME LoggerAssumption ==
    /\ SIZE \in Nat /\ kMaxNumericSize \in Nat \ {0} /\ Bits \in Nat \ {0}
    /\ SIZE > TimeLen + UsLen + TidLen + LevelLen + kMaxNumericSize
    /\ TextLens \subseteq Nat /\ DoubleLens \subseteq 1..(kMaxNumericSize - 1)
    /\ Magnitudes \subseteq Nat /\ MaxOffered \in Nat

ASSUME StaticCheck ==
    /\ \A v \in Integer : Len(convert(v)) \in 1..(kMaxNumericSize - 1)
    /\ \A v \in Integer \cap Nat : Len(convertHex(v)) + 2 \in 1..(kMaxNumericSize - 1)

-----------------------------------------------------------------------------
(* FixedBuffer.  Besides cur_ a buffer records the end of the highest byte  *)
(* ever written and how many bytes were left out for want of room.          *)
EmptyBuffer == [cur |-> 0, high |-> 0, lost |-> 0]
avail(b) == SIZE - b.cur
Higher(h, n) == IF n > h THEN n ELSE h

Add(b, len, end) == [cur |-> b.cur + len, high |-> Higher(b.high, end), lost |-> b.lost]
Leave(b, len) == [cur |-> b.cur, high |-> b.high, lost |-> b.lost + len]

(* Mutant: a text may fill the buffer to the last byte.                     *)
appendTextFull(b, len) == IF avail(b) >= len THEN Add(b, len, b.cur + len) ELSE Leave(b, len)

(* FixedBuffer::append() *)
appendText(b, len) == IF avail(b) > len THEN Add(b, len, b.cur + len) ELSE Leave(b, len)

(* formatInteger(), operator<<(const void* ) and operator<<(double) write   *)
(* in place, with a terminating zero after the len bytes they add.          *)
appendNumber(b, len) ==
    IF avail(b) >= kMaxNumericSize THEN Add(b, len, b.cur + len + 1) ELSE Leave(b, len)

-----------------------------------------------------------------------------
VARIABLES pc,         \* "open" while a Logger exists, else "idle" or "aborted"
          level,      \* level_ of the open Logger, or of the last one
          buffer,     \* its buffer_, kept as the line that was output
          second,     \* the second of its time_
          stamp,      \* the second whose text formatTime() put on the line
          lastSecond, \* t_lastSecond
          timeText,   \* the second whose text is in t_time
          logLevel    \* g_logLevel

vars == <<pc, level, buffer, second, stamp, lastSecond, timeText, logLevel>>

(* t_lastSecond and t_time are zero until the thread's first line; the      *)
(* second 0 is long past.                                                   *)
LoggerInit ==
    /\ pc = "idle" /\ level = INFO /\ buffer = EmptyBuffer
    /\ second = 0 /\ stamp = 0 /\ lastSecond = 0 /\ timeText = 0
    /\ logLevel \in {1, 2}

SetLogLevel(l) ==
    /\ pc = "idle"
    /\ logLevel' = l
    /\ UNCHANGED <<pc, level, buffer, second, stamp, lastSecond, timeText>>

(* Mutant: the text is renewed only when the clock moved forward.           *)
FormatTimeForward(now) ==
    /\ lastSecond' = now
    /\ timeText' = IF now > lastSecond THEN now ELSE timeText
    /\ stamp' = timeText'

(* Logger::Impl::formatTime() renews the text of the thread only when the   *)
(* second changed.                                                          *)
FormatTime(now) ==
    /\ lastSecond' = now
    /\ timeText' = IF now # lastSecond THEN now ELSE timeText
    /\ stamp' = timeText'

(* The line after Impl's constructor: time, thread id, level and, for       *)
(* errno err # 0, its text of length n.                                     *)
LineHead(err, n) ==
    LET time == appendText(appendText(EmptyBuffer, TimeLen), UsLen)
        head == appendText(appendText(time, TidLen), LevelLen)
    IN IF err = 0 THEN head
       ELSE appendText(appendNumber(appendText(appendText(head, n), 8), Len(convert(err))), 2)

(* The macros of Logging.h: the first three are skipped below the level.    *)
Enabled(s) == s <= INFO => logLevel <= LevelOf(s)

(* The first two statements print the function's name, of length n, and the *)
(* last two errno.                                                          *)
NewLogger(s, now, err, n) ==
    /\ pc = "idle"
    /\ Enabled(s)
    /\ s <= FATAL => err = 0
    /\ pc' = "open" /\ level' = LevelOf(s) /\ second' = now
    /\ FormatTime(now)
    /\ buffer' = IF s <= 2 THEN appendText(appendText(LineHead(err, n), n), 1) ELSE LineHead(err, n)
    /\ UNCHANGED logLevel

(* The operators << of LogStream. *)
Stream(b) ==
    /\ pc = "open" /\ buffer.cur + buffer.lost < MaxOffered
    /\ buffer' = b
    /\ UNCHANGED <<pc, level, second, stamp, lastSecond, timeText, logLevel>>

StreamText(n) == Stream(appendText(buffer, n))
StreamInteger(v) == Stream(appendNumber(buffer, Len(convert(v))))
StreamPointer(v) == Stream(appendNumber(buffer, Len(convertHex(v)) + 2))
StreamDouble(n) == Stream(appendNumber(buffer, n))

(* ~Logger(): finish() adds the place, the line is output, FATAL aborts.    *)
LineTail(b, n, line) ==
    appendText(appendNumber(appendText(appendText(appendText(b, 3), n), 1), Len(convert(line))), 1)

EndLogger(n, line) ==
    /\ pc = "open"
    /\ buffer' = LineTail(buffer, n, line)
    /\ pc' = IF level = FATAL THEN "aborted" ELSE "idle"
    /\ UNCHANGED <<level, second, stamp, lastSecond, timeText, logLevel>>

LoggerNext ==
    \/ \E l \in 1..FATAL : SetLogLevel(l)
    \/ \E s \in 1..8, now \in Seconds, err \in Numbers \cap Nat, n \in TextLens :
         NewLogger(s, now, err, n)
    \/ \E n \in TextLens : StreamText(n)
    \/ \E v \in Numbers \cap Nat : StreamPointer(v)
    \/ \E v \in Numbers : StreamInteger(v)
    \/ \E n \in DoubleLens : StreamDouble(n)
    \/ \E n \in TextLens, line \in Numbers \cap Nat : EndLogger(n, line)

LoggerSpec == LoggerInit /\ [][LoggerNext]_vars

-----------------------------------------------------------------------------
(* Properties. *)

(* Nothing is written behind the buffer, neither the text nor the zero that *)
(* convert(), convertHex() and snprintf() put after a number, and cur_      *)
(* always leaves room for the zero debugString() writes.                    *)
WithinBuffer == buffer.cur < SIZE /\ buffer.high <= SIZE

(* A line is whole if all it should hold, and kMaxNumericSize, would fit,   *)
(* and every line carries the second its Logger was made in, whichever way  *)
(* the clock moved since the line before.                                   *)
LineFaithful ==
    /\ buffer.cur + buffer.lost + kMaxNumericSize <= SIZE => buffer.lost = 0
    /\ stamp = second

(* The value of a sequence of digits, and what it takes to be a numeral.    *)
Denotes[base \in {10, 16}, text \in Seq(0..15)] ==
    IF text = <<>> THEN 0
    ELSE base * Denotes[base, SubSeq(text, 1, Len(text) - 1)] + text[Len(text)]

IsNumeral(text, base, v) ==
    LET negative == text[1] = Minus
        digits == IF negative THEN Tail(text) ELSE text
    IN /\ digits \in Seq(0..(base - 1)) /\ digits # <<>>
       /\ digits[1] = 0 => digits = <<0>> /\ ~negative
       /\ v = IF negative THEN -Denotes[base, digits] ELSE Denotes[base, digits]

(* convert() and convertHex() print the number they are given: the text     *)
(* denotes the value, has no leading zero, and a sign only if negative.     *)
(* This includes the most negative value, which has no absolute value in    *)
(* its type.  It is a statement about the two functions and not about one   *)
(* state; the initial states, with nothing logged, are where it is checked. *)
ConvertIsDecimal ==
    buffer = EmptyBuffer =>
        /\ \A v \in Integer : IsNumeral(convert(v), 10, v)
        /\ \A v \in Integer \cap Nat : IsNumeral(convertHex(v), 16, v)
=============================================================================
