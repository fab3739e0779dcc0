------------------------------ MODULE Commands ------------------------------
(***************************************************************************)
(* Chat commands in the Play state: mc_commands_handle_chat of             *)
(* core/src/mc_commands.c, and the part of core/src/mc_server.c that gives *)
(* it the player's position, carries its result out and takes the          *)
(* client's own movement.                                                  *)
(*                                                                         *)
(* The code does without floating-point instructions: it reads decimals    *)
(* into a fixed-point number, packs that into the bits of a double, and    *)
(* later turns the bits back into decimals.  The arithmetic is kept as it  *)
(* is and its widths are parameters, so that small ones can be checked     *)
(* whole.  A message is a sequence of words, a word a sequence of symbols: *)
(* the characters of a number, or one symbol for a name such as "day".     *)
(* What the other texts say is left out.                                   *)
(***************************************************************************)
EXTENDS Integers, Sequences, SequencesExt, TLC

CONSTANTS
    CoordLimit,     \* MC_COMMAND_COORD_LIMIT_WHOLE
    MaxFracDigits,  \* MC_COMMAND_DECIMAL_MAX_FRAC_DIGITS
    FracBits,       \* bits of the fixed-point fraction (32)
    DoubleShift,    \* MC_COMMAND_DOUBLE_EXP_SHIFT: mantissa bits below the hidden one
    FloatShift,     \* MC_COMMAND_FLOAT_EXP_SHIFT
    Width,          \* bits of a uint64_t
    TimeLimit,      \* the largest time of day (24000)
    TextCap,        \* MC_COMMAND_TEXT_CAP
    NameLen,        \* length of the user's name
    Spawn,          \* MC_COMMAND_DEFAULT_X .. MC_COMMAND_DEFAULT_PITCH
    Opening,        \* bound: what the client may say first
    Following,      \* bound: what it may say later
    Places, Looks,  \* bound: where the client may move to, and look
    MaxSteps        \* bound: chat messages and movements

ASSUME CommandsAssumption ==
    /\ {CoordLimit, MaxFracDigits, FracBits, TextCap, NameLen, TimeLimit, MaxSteps} \subseteq Nat
    /\ {FloatShift, DoubleShift, Width} \subseteq 1..30
    /\ FloatShift < DoubleShift /\ DoubleShift + 8 < Width

VARIABLES
    server,  \* the player's position, time of day and weather of mc_server_t
    typed,   \* the coordinates the client typed last, or <<>> if it was moved since
    said,    \* the last message
    reply,   \* what the client was told
    play,    \* the session is in the Play state
    steps    \* messages and movements so far

vars == <<server, typed, said, reply, play, steps>>

-----------------------------------------------------------------------------
(* Text.                                                                   *)

DigitValue == "0" :> 0 @@ "1" :> 1 @@ "2" :> 2 @@ "3" :> 3 @@ "4" :> 4 @@
              "5" :> 5 @@ "6" :> 6 @@ "7" :> 7 @@ "8" :> 8 @@ "9" :> 9
IsDigit(c) == c \in DOMAIN DigitValue
AllDigits(s) == \A i \in DOMAIN s : IsDigit(s[i])

\* How many symbols at the start of s are digits.
DigitRun(s) == CHOOSE n \in 0..Len(s) :
    AllDigits(SubSeq(s, 1, n)) /\ (n = Len(s) \/ ~IsDigit(s[n + 1]))
Digits(s) == [i \in DOMAIN s |-> DigitValue[s[i]]]
From(s, i) == SubSeq(s, i, Len(s))

\* mc_builder_append_bytes and its kin, on the length of the text alone: n
\* bytes are appended if they and the closing NUL fit.
Overflow == -1
\* Fault: no room is kept for the NUL.
builder_append_full(len, n) ==
    IF len = Overflow \/ len + n > TextCap THEN Overflow ELSE len + n

builder_append(len, n) ==
    IF len = Overflow \/ len + n >= TextCap THEN Overflow ELSE len + n

\* Characters mc_builder_append_u32 writes, at most ten.
DecimalLength(v) == CHOOSE n \in 1..10 : v < 10^n /\ (n = 1 \/ v >= 10^(n - 1))

\* mc_builder_append_fixed2_scaled: sign, whole part, point, two digits.
append_fixed2_scaled(len, f) ==
    builder_append(builder_append(len, IF f.negative THEN 1 ELSE 0),
                   DecimalLength(f.scaled \div 100) + 3)

-----------------------------------------------------------------------------
(* Binary numbers.                                                         *)

\* A double or float by its fields: mantissa * 2^(exponent - shift), with
\* the hidden bit in the mantissa; zero and subnormals; infinities and NaN.
Zero == [class |-> "zero", negative |-> FALSE, exponent |-> 0, mantissa |-> 0]
Special == [class |-> "special", negative |-> FALSE, exponent |-> 0, mantissa |-> 0]
Normal(negative, exponent, mantissa) ==
    [class |-> "normal", negative |-> negative, exponent |-> exponent, mantissa |-> mantissa]

\* Round to nearest, ties to even.
mc_round_shift_u64(value, shift) ==
    IF shift = 0 THEN value
    ELSE IF shift >= Width THEN 0
    ELSE LET quotient == value \div 2^shift
             remainder == value % 2^shift
             half == 2^(shift - 1) IN
         IF remainder > half \/ (remainder = half /\ quotient % 2 = 1)
         THEN quotient + 1 ELSE quotient

MAX_SCALED == CoordLimit * 100
NotShown == [ok |-> FALSE, negative |-> FALSE, scaled |-> 0]
Fixed2(negative, scaled) ==
    IF scaled > MAX_SCALED THEN NotShown
    ELSE [ok |-> TRUE, negative |-> negative /\ scaled # 0, scaled |-> scaled]

\* The number in hundredths, if it is small enough.  (The mantissas of both
\* formats pass the test that a hundred times them fits in 64 bits.)
mc_binary_to_fixed2(negative, exponent, mantissa, bits) ==
    LET base == mantissa * 100
        shift == exponent - bits IN
    IF shift >= 0
    THEN IF shift >= Width \/ base > MAX_SCALED \div 2^shift THEN NotShown
         ELSE Fixed2(negative, base * 2^shift)
    ELSE Fixed2(negative, mc_round_shift_u64(base, -shift))

to_fixed2(v, bits) ==
    CASE v.class = "special" -> NotShown
      [] v.class = "zero" -> Fixed2(FALSE, 0)
      [] v.class = "normal" -> mc_binary_to_fixed2(v.negative, v.exponent, v.mantissa, bits)
mc_double_to_fixed2(v) == to_fixed2(v, DoubleShift)
mc_float_to_fixed2(v) == to_fixed2(v, FloatShift)

\* What a digit counts for: each entry is the rounded tenth of the one before,
\* so that the roundings add up (430 is the seventh, 2^32 / 10^7 is nearer 429).
frac_q32_place[k \in 0..MaxFracDigits] ==
    IF k = 0 THEN 2^FracBits ELSE (frac_q32_place[k - 1] + 5) \div 10
SumOf(s) == FoldLeft(+, 0, s)

\* Fault: a mantissa rounded up to the next power of two keeps its exponent.
decimal_to_double_no_carry(negative, whole, frac, places) ==
    LET q == whole * 2^FracBits
             + SumOf([k \in 1..places |-> ((frac \div 10^(places - k)) % 10) * frac_q32_place[k]])
        msb == CHOOSE m \in 0..Width : q \div 2^m = 1
        shift == DoubleShift - msb IN
    IF q = 0 THEN Zero
    ELSE Normal(negative, msb - FracBits,
                2^DoubleShift + ((IF shift >= 0 THEN q * 2^shift ELSE mc_round_shift_u64(q, -shift))
                                     % 2^DoubleShift))

\* whole and the digits of frac, of which there are places: the fixed-point
\* number, and its leading bits as a double.
mc_decimal_to_double(negative, whole, frac, places) ==
    LET q == whole * 2^FracBits
             + SumOf([k \in 1..places |-> ((frac \div 10^(places - k)) % 10) * frac_q32_place[k]])
        msb == CHOOSE m \in 0..Width : q \div 2^m = 1
        shift == DoubleShift - msb
        mantissa == IF shift >= 0 THEN q * 2^shift ELSE mc_round_shift_u64(q, -shift) IN
    IF q = 0 THEN Zero
    ELSE IF mantissa >= 2^(DoubleShift + 1) THEN Normal(negative, msb - FracBits + 1, mantissa \div 2)
    ELSE Normal(negative, msb - FracBits, mantissa)

-----------------------------------------------------------------------------
(* Numbers as they are typed.                                              *)

\* The verdict on a word, and its value if it is "ok".
Verdict(verdict, value) == [verdict |-> verdict, value |-> value]

whole_digit(acc, d) ==
    IF acc.whole > (CoordLimit - d) \div 10 THEN [acc EXCEPT !.range_error = TRUE]
    ELSE IF acc.range_error THEN acc
    ELSE [acc EXCEPT !.whole = @ * 10 + d]

\* Fault: the digits that are not kept are not looked at.
frac_digit_forgotten(acc, d) ==
    IF ~acc.range_error /\ acc.places < MaxFracDigits
    THEN [acc EXCEPT !.frac = @ * 10 + d, !.places = @ + 1]
    ELSE acc

frac_digit(acc, d) ==
    IF ~acc.range_error /\ acc.places < MaxFracDigits
    THEN [acc EXCEPT !.frac = @ * 10 + d, !.places = @ + 1]
    ELSE [acc EXCEPT !.discarded_nonzero_frac = @ \/ d # 0]

Signed(word) == word # <<>> /\ word[1] \in {"-", "+"}
Unsigned(word) == IF Signed(word) THEN Tail(word) ELSE word

mc_parse_decimal(word) ==
    LET s == Unsigned(word)
        n == DigitRun(s)
        rest == From(s, n + 1)
        none == [whole |-> 0, range_error |-> FALSE, frac |-> 0, places |-> 0,
                 discarded_nonzero_frac |-> FALSE]
        whole == FoldLeft(whole_digit, none, Digits(SubSeq(s, 1, n)))
        all == IF rest = <<>> THEN whole ELSE FoldLeft(frac_digit, whole, Digits(Tail(rest))) IN
    IF n = 0 \/ (rest # <<>> /\ (rest[1] # "." \/ Len(rest) = 1 \/ ~AllDigits(Tail(rest))))
    THEN Verdict("invalid", Zero)
    ELSE IF \/ all.range_error \/ all.whole > CoordLimit
            \/ all.whole = CoordLimit /\ (all.frac # 0 \/ all.discarded_nonzero_frac)
    THEN Verdict("out of range", Zero)
    ELSE Verdict("ok", mc_decimal_to_double(word[1] = "-", all.whole, all.frac, all.places))

\* A value past the limit takes no more digits, so it cannot overflow.
time_digit(value, d) == IF value <= TimeLimit THEN value * 10 + d ELSE value
mc_parse_time_ticks(word) ==
    IF word = <<>> \/ ~AllDigits(word) THEN Verdict("invalid", 0)
    ELSE LET value == FoldLeft(time_digit, 0, Digits(word)) IN
         IF value > TimeLimit THEN Verdict("out of range", 0) ELSE Verdict("ok", value)

-----------------------------------------------------------------------------
(* mc_commands_handle_chat: the type of the result, what it asks for, and  *)
(* the text: its name, its length (0 for one of the fixed texts, each of   *)
(* which fits) and the numbers it shows.                                   *)

Coordinates == {"x", "y", "z"}
Result(type, action, text, len, shown) ==
    [type |-> type, action |-> action, text |-> text, len |-> len, shown |-> shown]
Chat(text) == Result("CHAT", <<>>, text, 0, <<>>)

\* "<name> message"
mc_plain_chat(message) ==
    LET head == builder_append(builder_append(builder_append(0, 1), NameLen), 2) IN
    Result("CHAT", <<>>, "plain", builder_append(head, message.len), <<>>)

mc_handle_spawn == Result("TELEPORT", Spawn, "spawn", 0, <<>>)

mc_handle_tp(words, position) ==
    LET parsed == [i \in 1..3 |-> mc_parse_decimal(words[i + 1])] IN
    IF Len(words) # 4 THEN Chat("usage")
    ELSE IF \E i \in 1..3 : parsed[i].verdict = "invalid" THEN Chat("invalid")
    ELSE IF \E i \in 1..3 : parsed[i].verdict = "out of range" THEN Chat("out of range")
    ELSE Result("TELEPORT",
                [position EXCEPT !.x = parsed[1].value, !.y = parsed[2].value, !.z = parsed[3].value],
                "teleported", 0, <<>>)

mc_handle_pos(position) ==
    LET f == [c \in Coordinates |-> mc_double_to_fixed2(position[c])]
             @@ [c \in {"yaw", "pitch"} |-> mc_float_to_fixed2(position[c])]
        labels == <<<<"x", 18>>, <<"y", 3>>, <<"z", 3>>, <<"yaw", 5>>, <<"pitch", 7>>>>
        append(len, label) ==
            append_fixed2_scaled(builder_append(len, label[2]), f[label[1]]) IN
    IF \E c \in DOMAIN f : ~f[c].ok THEN Chat("unavailable")
    ELSE Result("CHAT", <<>>, "position", FoldLeft(append, 0, labels), f)

mc_time_result(ticks) ==
    Result("TIME", ticks, "time", builder_append(builder_append(12, DecimalLength(ticks)), 1), <<>>)

NamedTimes == "day" :> 1000 @@ "noon" :> 6000 @@ "night" :> 13000 @@ "midnight" :> 18000
mc_handle_time(words) ==
    IF Len(words) # 2 THEN Chat("usage")
    ELSE IF Len(words[2]) = 1 /\ words[2][1] \in DOMAIN NamedTimes
    THEN mc_time_result(NamedTimes[words[2][1]])
    ELSE LET ticks == mc_parse_time_ticks(words[2]) IN
         IF ticks.verdict # "ok" THEN Chat(ticks.verdict) ELSE mc_time_result(ticks.value)

mc_handle_weather(words) ==
    IF Len(words) = 2 /\ words[2] \in {<<"clear">>, <<"rain">>, <<"thunder">>}
    THEN Result("WEATHER", words[2][1], "weather", 0, <<>>)
    ELSE Chat("usage")

MAX_WORDS == 5

\* The first word decides; names that take no arguments refuse any.
mc_commands_handle_chat(message, position) ==
    LET words == message.words
        alone(r) == IF Len(words) = 1 THEN r ELSE Chat("unknown") IN
    CASE ~message.slash -> mc_plain_chat(message)
      [] message.slash /\ Len(words) > MAX_WORDS -> Chat("unknown")
      [] message.slash /\ Len(words) <= MAX_WORDS ->
            CASE words[1] = <<"/help">> -> alone(Chat("help"))
              [] words[1] = <<"/spawn">> -> alone(mc_handle_spawn)
              [] words[1] = <<"/tp">> -> mc_handle_tp(words, position)
              [] words[1] = <<"/pos">> -> alone(mc_handle_pos(position))
              [] words[1] = <<"/time">> -> mc_handle_time(words)
              [] words[1] = <<"/weather">> -> mc_handle_weather(words)
              [] OTHER -> Chat("unknown")

-----------------------------------------------------------------------------
(* The server around it.                                                   *)

reset_play_runtime_state == [position |-> Spawn, world_time |-> 6000, weather |-> "clear"]

Nothing == Chat("nothing")
Silence == [slash |-> FALSE, words |-> <<>>, len |-> 0]

Init ==
    /\ server = reset_play_runtime_state
    /\ typed = <<>> /\ said = Silence /\ reply = Nothing
    /\ play = TRUE /\ steps = 0

\* execute_command_result, for a result whose packets are queued.
execute_command_result(r) ==
    CASE r.type = "CHAT" -> server
      [] r.type = "TELEPORT" -> [server EXCEPT !.position = r.action]
      [] r.type = "TIME" -> [server EXCEPT !.world_time = r.action]
      [] r.type = "WEATHER" -> [server EXCEPT !.weather = r.action]

\* A chat packet whose answer fits in the TX ring.
HandleChat(m) ==
    LET r == mc_commands_handle_chat(m, server.position) IN
    /\ play /\ steps < MaxSteps
    /\ r.len # Overflow
    /\ server' = execute_command_result(r)
    /\ reply' = r
    /\ said' = m
    /\ typed' = CASE r.text = "teleported" -> [x |-> m.words[2], y |-> m.words[3], z |-> m.words[4]]
                  [] r.text = "spawn" -> <<>>
                  [] OTHER -> typed
    /\ steps' = steps + 1 /\ UNCHANGED play

\* A chat packet whose text overflows its buffer, or whose answer does not
\* fit in the ring: mc_server_receive fails and the host ends the session.
\* The client logs in again.
LoseSession(m) ==
    LET r == mc_commands_handle_chat(m, server.position) IN
    /\ play /\ 0 < steps /\ steps < MaxSteps
    /\ server' = reset_play_runtime_state
    /\ typed' = <<>> /\ said' = m /\ play' = FALSE /\ steps' = steps + 1
    /\ reply' = IF r.len = Overflow THEN r ELSE Nothing

Login ==
    /\ ~play
    /\ play' = TRUE /\ reply' = Nothing /\ said' = Silence
    /\ UNCHANGED <<server, typed, steps>>

\* handle_play_movement: a position, a look or both, of the client's making.
handle_play_movement(place, look) ==
    /\ play /\ 0 < steps /\ steps < MaxSteps
    /\ server' = [server EXCEPT !.position = look @@ place @@ @]
    /\ typed' = IF place = <<>> THEN typed ELSE <<>>
    /\ reply' = Nothing /\ said' = Silence
    /\ steps' = steps + 1 /\ UNCHANGED play

Finished == steps = MaxSteps /\ play /\ UNCHANGED vars

Next ==
    \/ \E m \in IF steps = 0 THEN Opening ELSE Following : HandleChat(m)
    \/ \E m \in Following : LoseSession(m)
    \/ Login
    \/ \E place \in Places \cup {<<>>}, look \in Looks \cup {<<>>} : handle_play_movement(place, look)
    \/ Finished

Spec == Init /\ [][Next]_vars

-----------------------------------------------------------------------------
(* What a typed number means.                                              *)

ValueOf(digits) == FoldLeft(LAMBDA v, d : v * 10 + d, 0, digits)

\* sign? digits (. digits)?
IsDecimal(word) ==
    LET s == Unsigned(word) IN
    \E n \in 1..Len(s) :
        /\ AllDigits(SubSeq(s, 1, n))
        /\ n = Len(s) \/ (s[n + 1] = "." /\ n + 1 < Len(s) /\ AllDigits(From(s, n + 2)))
FracLen(word) == IF \E i \in DOMAIN word : word[i] = "."
                 THEN Len(word) - (CHOOSE i \in DOMAIN word : word[i] = ".") ELSE 0
\* The magnitude, times 10^FracLen.
Magnitude(word) == ValueOf(Digits(SelectSeq(word, IsDigit)))

Hundredths(f) == IF f.negative THEN -f.scaled ELSE f.scaled
PosMessage == [slash |-> TRUE, words |-> <<<<"/pos">>>>, len |-> 0]
LookShown == \A c \in {"yaw", "pitch"} : server.position[c].class # "special"
Typed(word) == IF word[1] = "-" THEN -Magnitude(word) ELSE Magnitude(word)

-----------------------------------------------------------------------------

Text == {"nothing", "usage", "invalid", "out of range", "unknown", "help", "plain", "spawn",
         "teleported", "position", "unavailable", "time", "weather"}
\* Every variable has its type; no text reaches past the end of its buffer,
\* NUL included, and the numbers shown are below the limit.
TypeOK ==
    /\ server.world_time \in 0..TimeLimit /\ server.weather \in {"clear", "rain", "thunder"}
    /\ \A c \in Coordinates :
        /\ server.position[c].class = "normal" => server.position[c].mantissa \in 2^DoubleShift..(2^(DoubleShift + 1) - 1)
        /\ server.position[c].class \in {"normal", "zero", "special"}
    /\ reply.text \in Text
    /\ reply.len = Overflow \/ reply.len \in 0..(TextCap - 1)
    /\ \A c \in DOMAIN reply.shown : reply.shown[c].scaled \in 0..MAX_SCALED
    /\ play \in BOOLEAN /\ steps \in 0..MaxSteps

\* mc_parse_decimal and mc_parse_time_ticks judge a word by the number it
\* stands for, however many digits it has: /tp goes ahead exactly when all
\* three are decimals of magnitude at most the limit, and /time sets the
\* number typed exactly when it is at most the limit.
VerdictExact ==
    /\ (said.slash /\ Len(said.words) = 4 /\ said.words[1] = <<"/tp">> /\ reply # Nothing) =>
        LET args == {said.words[i] : i \in 2..4} IN
        reply.text = IF \E w \in args : ~IsDecimal(w) THEN "invalid"
                     ELSE IF \E w \in args : Magnitude(w) > CoordLimit * 10^FracLen(w) THEN "out of range"
                     ELSE "teleported"
    /\ (said.slash /\ Len(said.words) = 2 /\ said.words[1] = <<"/time">> /\ AllDigits(said.words[2])
          /\ reply # Nothing) =>
        LET v == ValueOf(Digits(said.words[2])) IN
        IF v > TimeLimit THEN reply.text = "out of range" ELSE reply.text = "time" /\ server.world_time = v

\* After /tp, /pos shows what was typed, the limit included: rounding to the
\* fixed point, to a double and to hundredths never pushes a position past
\* what mc_binary_to_fixed2 shows, and the text fits its buffer.  The numbers
\* are exact when they were typed with at most two decimals, and otherwise
\* at most half a hundredth off, give or take the tenth of one that the
\* fixed-point table may err at this width.
TypedIsShown ==
    (said = PosMessage /\ reply # Nothing /\ typed # <<>> /\ LookShown) =>
        /\ reply.text = "position" /\ reply.len # Overflow
        /\ \A c \in Coordinates :
            LET one == 10^FracLen(typed[c])
                off == Hundredths(reply.shown[c]) * one - Typed(typed[c]) * 100 IN
            /\ FracLen(typed[c]) <= 2 => off = 0
            /\ -11 * one <= 20 * off /\ 20 * off <= 11 * one

=============================================================================
