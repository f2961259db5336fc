-------------------------------- MODULE Logger --------------------------------
(***************************************************************************)
(* The logger (src/logger/my_logger.cpp): a line is put together in an     *)
(* array of the caller's stack, then written to the screen, to the log     *)
(* file, or both.                                                          *)
(*                                                                         *)
(* Of what is written only the length is kept: a format is any sequence of *)
(* texts and numbers, so any of them may come next, and the positions of   *)
(* the array are numbers.  `last' is the position nothing should be        *)
(* written at or behind; the array has one byte more.                      *)
(***************************************************************************)
EXTENDS Integers

CONSTANTS
    last,            \* NGX_MAX_ERROR_STR
    Lengths,         \* lengths of texts, digits of numbers, widths in formats
    ReasonLengths,   \* lengths of the texts of error numbers, " (n: text) "
    LogLevels,       \* values of LogLevel in the configuration
    Levels           \* levels of messages

(* The date and "nginx: " are copied without a look at the room.           *)
DateLen == 19
NameLen == 7

LoggerAssumption ==
    /\ last \in Nat /\ last > DateLen
    /\ Lengths \subseteq Nat /\ ReasonLengths \subseteq Nat \ {0}
    /\ Levels \subseteq Nat /\ LogLevels \subseteq Nat

VARIABLES
    fd,              \* my_log.fd: "none" (-1), "stderr" or "file"
    LogLevel,        \* my_log.LogLevel
    pc,
    call,            \* the function that makes the line: "stderr" or "core"
    level, err,      \* its arguments; of err whether it is 0
    p,               \* where the next byte goes
    reason,          \* ghost: where the reason of the error ends, 0 if there is none
    reached          \* what the line has reached: the screen, the file

log == <<fd, LogLevel>>
arguments == <<call, level, err>>
line == <<p, reason>>
vars == <<log, pc, arguments, line, reached>>

Init ==
    /\ fd = "none" /\ LogLevel = 7       \* NGX_LOG_INFO
    /\ pc = "idle" /\ call = "core" /\ level = 0 /\ err = FALSE
    /\ p = 0 /\ reason = 0 /\ reached = {}

-----------------------------------------------------------------------------
Least(a, b) == IF a <= b THEN a ELSE b

(* Bytes one after the other while there is room.                          *)
PutText(at, n) == Least(at + n, last)

PutNumberBlindly(at, digits, width) ==                              \* mutant
    (IF digits < width THEN PutText(at, width - digits) ELSE at) + digits
(* ngx_sprintf_num: fills up to the width, then as many digits as fit.     *)
PutNumber(at, digits, width) ==
    LET from == IF digits < width THEN PutText(at, width - digits) ELSE at
    IN  IF from + digits >= last THEN last ELSE from + digits

(* %d and its like: the sign is written without a look at the room.        *)
PutSigned(at, negative, digits, width) ==
    PutNumber(IF negative THEN at + 1 ELSE at, digits, width)

(* %f: a point if there is room, and as many digits as the format says.    *)
PutFraction(at, digits) ==
    IF digits = 0 THEN at
    ELSE PutNumber(IF at < last THEN at + 1 ELSE at, digits, digits)

-----------------------------------------------------------------------------
(* ngx_log_stderr and ngx_log_error_core are called.                       *)
LogStderr ==
    /\ pc = "idle"
    /\ call' = "stderr" /\ level' = 0 /\ err' \in BOOLEAN
    /\ p' = NameLen /\ reason' = 0 /\ reached' = {}
    /\ pc' = "format"
    /\ UNCHANGED log

(* The level between brackets and the process follow the date.             *)
Prefix(name, pid) == PutText(PutNumber(PutText(DateLen, name + 4), pid, 0), 2)

LogErrorCore ==
    /\ pc = "idle"
    /\ call' = "core" /\ level' \in Levels /\ err' \in BOOLEAN
    /\ \E name, pid \in Lengths : p' = Prefix(name, pid)
    /\ reason' = 0 /\ reached' = {}
    /\ pc' = "format"
    /\ UNCHANGED log

(* ngx_vslprintf, one round: a text (%s or plain), a single byte (%% or an *)
(* unknown letter), a whole number, or a fraction.                         *)
Format ==
    /\ pc = "format" /\ p < last
    /\ \/ \E n \in Lengths : p' = PutText(p, n)
       \/ p' = p + 1
       \/ \E digits, width \in Lengths, negative \in BOOLEAN :
             \/ p' = PutSigned(p, negative, digits, width)
             \/ \E frac_width \in Lengths :
                   p' = PutFraction(PutSigned(p, negative, digits, width), frac_width)
    /\ UNCHANGED <<log, pc, arguments, reason, reached>>

FormatEnds ==
    /\ pc = "format"
    /\ pc' = IF err THEN "reason" ELSE "newline"
    /\ UNCHANGED <<log, arguments, line, reached>>

ReasonFitsLate(n) == p + n <= last                                  \* mutant
ReasonFits(n) == p + n < last

(* ngx_log_errno: " (n: text) " as a whole, or nothing.  It ends with a    *)
(* blank.                                                                  *)
LogErrno ==
    /\ pc = "reason"
    /\ \E n \in ReasonLengths :
          IF ReasonFits(n) THEN p' = p + n /\ reason' = p + n - 1
          ELSE UNCHANGED line
    /\ pc' = "newline"
    /\ UNCHANGED <<log, arguments, reached>>

(* The end of the line, over what is there if there is no room.            *)
Newline ==
    /\ pc = "newline"
    /\ p' = (IF p >= last - 1 THEN last - 2 ELSE p) + 1
    /\ pc' = "write"
    /\ UNCHANGED <<log, arguments, reason, reached>>

(* ngx_log_stderr writes, and hands its text without the newline and with  *)
(* no error number to ngx_log_error_core, as a format, if there is a file. *)
WriteStderr ==
    /\ pc = "write" /\ call = "stderr"
    /\ reached' \in {{}, {"screen"}}
    /\ IF fd = "file"
       THEN /\ \E name, pid \in Lengths : p' = PutText(Prefix(name, pid), p - 1)
            /\ call' = "core" /\ err' = FALSE /\ reason' = 0
            /\ pc' = "newline"
       ELSE pc' = "idle" /\ UNCHANGED <<line, call, err>>
    /\ UNCHANGED <<log, level>>

(* ngx_log_error_core writes what is grave enough: to the file, and if     *)
(* that fails, but not for want of space, to the screen.                   *)
TooFine ==
    /\ pc = "write" /\ call = "core" /\ level > LogLevel
    /\ pc' = "idle"
    /\ UNCHANGED <<log, arguments, line, reached>>

WriteCore ==
    /\ pc = "write" /\ call = "core" /\ level <= LogLevel
    /\ \/ fd = "file" /\ reached' = reached \cup {"file"}
       \/ reached' = reached \cup {"screen"}   \* opened so, or the write failed
       \/ fd # "none" /\ UNCHANGED reached     \* no space, or no screen
    /\ pc' = "idle"
    /\ UNCHANGED <<log, arguments, line>>

(* ngx_log_init, and ngx_log_close at the end of the process.  Where it    *)
(* cannot open the file it reports that on the screen.                     *)
LogInit ==
    /\ pc = "idle" /\ fd = "none"
    /\ LogLevel' \in LogLevels
    /\ \/ fd' = "file" /\ UNCHANGED <<pc, arguments, line, reached>>
       \/ /\ fd' = "stderr"
          /\ pc' = "format" /\ call' = "stderr" /\ level' = 0 /\ err' = TRUE
          /\ p' = NameLen /\ reason' = 0 /\ reached' = {}

LogClose ==
    /\ pc = "idle" /\ fd = "file"
    /\ fd' = "none"
    /\ UNCHANGED <<LogLevel, pc, arguments, line, reached>>

Next ==
    \/ LogStderr \/ LogErrorCore \/ Format \/ FormatEnds \/ LogErrno \/ Newline
    \/ WriteStderr \/ TooFine \/ WriteCore \/ LogInit \/ LogClose

Spec == Init /\ [][Next]_vars

-----------------------------------------------------------------------------
TypeOK ==
    /\ fd \in {"none", "stderr", "file"} /\ LogLevel \in Nat
    /\ pc \in {"idle", "format", "reason", "newline", "write"}
    /\ call \in {"stderr", "core"} /\ level \in Nat /\ err \in BOOLEAN
    /\ p \in Nat /\ reason \in Nat /\ reached \subseteq {"screen", "file"}

(* my_logger.cpp, the comments "do not put data behind this" and "where    *)
(* the room is too small the newline goes in at the end, even over         *)
(* something else": nothing is ever written outside the array, and a line  *)
(* ends with its newline inside it.  The reason of an error is in the line *)
(* as a whole or not at all: the newline takes no more than its blank.     *)
LinesWhole ==
    /\ p <= last
    /\ pc = "write" => p < last /\ reason < p
=============================================================================
