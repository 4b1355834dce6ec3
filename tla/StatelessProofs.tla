--------------------------- MODULE StatelessProofs ---------------------------
(***************************************************************************)
(* The parts that keep no state: what holds of the settings for every      *)
(* command line and environment, and what the pipe reader finds in a line. *)
(***************************************************************************)
EXTENDS Configuration, PipeReader, TLAPS

-----------------------------------------------------------------------------
(* Configuration                                                           *)

LEMMA EnvironmentOrDefault ==
  ASSUME NEW S, NEW env \in AtMostOne(S), NEW default
  PROVE  GetEnv(env, default) \in env \cup {default}
BY DEF AtMostOne, GetEnv

LEMMA NumbersHaveDefaults == \A s \in Numbers : DefaultNumber[s] \in Nat
BY DEF Numbers, DefaultNumber

(* Each number is the flag, the environment's value or the default.        *)
LEMMA NumberComesFrom ==
  ASSUME NEW flag \in Flags, NEW env \in Environments, NEW s \in Numbers
  PROVE  LET n == Parse(flag, env).number[s]
         IN  /\ n \in Int
             /\ flag.number[s] > 0 => n = flag.number[s]
             /\ flag.number[s] <= 0 /\ env.number[s] = {} => n = DefaultNumber[s]
             /\ flag.number[s] <= 0 /\ env.number[s] # {} => n \in env.number[s]
<1>1. flag.number[s] \in Int /\ env.number[s] \in AtMostOne(Int)
  BY DEF Flags, Environments
<1>2. env.number[s] \subseteq Int
  BY <1>1 DEF AtMostOne
<1>3. DefaultNumber[s] \in Int
  BY NumbersHaveDefaults
<1>4. Parse(flag, env).number[s] = GetConfigIntValue(flag.number[s], env.number[s], DefaultNumber[s])
  BY DEF Parse
<1>5. /\ env.number[s] = {} => GetEnv(env.number[s], DefaultNumber[s]) = DefaultNumber[s]
      /\ env.number[s] # {} => GetEnv(env.number[s], DefaultNumber[s]) \in env.number[s]
  BY <1>1 DEF AtMostOne, GetEnv
<1> QED
  BY <1>1, <1>2, <1>3, <1>4, <1>5 DEF GetConfigIntValue

(* The service always admits a connection, whatever numbers, negative ones *)
(* included, flags and environment give (service.go:109-123): the          *)
(* assumption of Service.                                                  *)
THEOREM ConnectionsAllowed ==
  ASSUME NEW flag \in Flags, NEW env \in Environments
  PROVE  LET config == Parse(flag, env)
         IN  MaxConnectionsOf(config.number["MaxConnections"], config.number["BufferSize"]) \in Nat \ {0}
<1>1. "MaxConnections" \in Numbers /\ "BufferSize" \in Numbers
  BY DEF Numbers, DefaultNumber
<1>2. /\ Parse(flag, env).number["MaxConnections"] \in Int
      /\ Parse(flag, env).number["BufferSize"] \in Int
  BY <1>1, NumberComesFrom
<1>3. ASSUME NEW m \in Int, NEW b \in Int
      PROVE  MaxConnectionsOf(m, b) \in Nat \ {0}
  BY DEF MaxConnectionsOf, Clamp
<1> QED
  BY <1>2, <1>3

(* Seconds that a time.Duration can hold are converted without a wrap.     *)
LEMMA SmallRemainder ==
  ASSUME NEW m \in Nat \ {0}, NEW n \in 0 .. m - 1
  PROVE  n % m = n
OBVIOUS

LEMMA DurationIsExact ==
  ASSUME NEW n \in Nat, n * Second <= MaxDuration
  PROVE  Duration(n) = n * Second
<1> DEFINE half == MaxDuration + 1
           t    == n * Second
<1>1. half \in Nat \ {0} /\ Second \in Nat
  BY SizesAssumption
<1>2. t \in Nat
  BY <1>1
<1>3. t < half
  BY <1>1, <1>2, SizesAssumption
<1> HIDE DEF t, half
<1>4. t + half \in 0 .. 2 * half - 1 /\ 2 * half \in Nat \ {0}
  BY <1>1, <1>2, <1>3
<1>5. (t + half) % (2 * half) = t + half
  BY <1>4, SmallRemainder
<1>6. ((t + half) % (2 * half)) - half = t
  BY <1>1, <1>2, <1>5
<1>7. n * Second + MaxDuration + 1 = t + half
  BY <1>1, <1>2, SizesAssumption DEF t, half
<1> QED
  BY <1>6, <1>7 DEF Duration, t, half

(* A number in between neither makes make panic nor NewTicker.             *)
LEMMA PanicsOutside ==
  ASSUME NEW flag \in Flags, NEW env \in Environments, Start(Parse(flag, env)) = "panic"
  PROVE  \E s \in {"BufferSize", "FlushInterval"} :
           Parse(flag, env).number[s] <= 0 \/ TooLarge(s, Parse(flag, env).number[s])
<1> DEFINE number == Parse(flag, env).number
<1>1. "BufferSize" \in Numbers /\ "FlushInterval" \in Numbers
  BY DEF Numbers, DefaultNumber
<1>2. number["BufferSize"] \in Int /\ number["FlushInterval"] \in Int
  BY <1>1, NumberComesFrom
<1> HIDE DEF number
<1>3. number["BufferSize"] \notin 0 .. MaxCapacity \/ Duration(number["FlushInterval"]) <= 0
  BY DEF Start, number
<1>4. CASE number["BufferSize"] \notin 0 .. MaxCapacity
  <2>1. number["BufferSize"] < 0 \/ number["BufferSize"] > MaxCapacity
    BY <1>2, <1>4, SizesAssumption
  <2> QED
    BY <1>2, <2>1 DEF TooLarge, number
<1>5. CASE Duration(number["FlushInterval"]) <= 0
  <2>1. SUFFICES ASSUME number["FlushInterval"] > 0,
                        ~(number["FlushInterval"] * Second > MaxDuration)
                 PROVE  FALSE
    BY <1>2 DEF TooLarge, number
  <2>2. number["FlushInterval"] \in Nat \ {0}
    BY <1>2, <2>1
  <2>3. number["FlushInterval"] * Second \in Nat \ {0}
    BY <2>2, SizesAssumption
  <2>4. Duration(number["FlushInterval"]) = number["FlushInterval"] * Second
    BY <2>1, <2>2, <2>3, DurationIsExact, SizesAssumption
  <2> QED
    BY <1>5, <2>3, <2>4
<1> QED
  BY <1>3, <1>4, <1>5

(* A negative number or zero on the command line cannot make the start     *)
(* panic: it would count as not given. It takes one from the environment,  *)
(* and no flag over it; or a number beyond what make can allocate, or a    *)
(* time.Duration hold, from either (config.go:157, 195-219, pipe.go:25,    *)
(* service.go:162).                                                        *)
THEOREM PanicNeedsEnvironment ==
  ASSUME NEW flag \in Flags, NEW env \in Environments, Start(Parse(flag, env)) = "panic"
  PROVE  \E s \in {"BufferSize", "FlushInterval"} :
           \/ TooLarge(s, flag.number[s])
           \/ /\ flag.number[s] <= 0
              /\ \E n \in env.number[s] : n <= 0 \/ TooLarge(s, n)
<1> DEFINE number == Parse(flag, env).number
<1>1. PICK s \in {"BufferSize", "FlushInterval"} : number[s] <= 0 \/ TooLarge(s, number[s])
  BY PanicsOutside
<1>2. s \in Numbers /\ DefaultNumber[s] > 0 /\ ~TooLarge(s, DefaultNumber[s])
  <2>1. s \in Numbers /\ DefaultNumber[s] > 0
    BY DEF Numbers, DefaultNumber
  <2>2. CASE s = "BufferSize"
    BY <2>1, <2>2, SizesAssumption DEF TooLarge, DefaultNumber
  <2>3. CASE s = "FlushInterval"
    BY <2>1, <2>3, SizesAssumption DEF TooLarge, DefaultNumber
  <2> QED
    BY <2>1, <2>2, <2>3
<1>3. flag.number[s] \in Int
  BY <1>2 DEF Flags
<1>4. CASE flag.number[s] > 0
  <2>1. number[s] = flag.number[s]
    BY <1>2, <1>4, NumberComesFrom
  <2> QED
    BY <1>1, <1>3, <1>4, <2>1
<1>5. CASE flag.number[s] <= 0
  <2>1. number[s] \in env.number[s]
    BY <1>1, <1>2, <1>5, NumberComesFrom, NumbersHaveDefaults
  <2> QED
    BY <1>1, <1>5, <2>1
<1> QED
  BY <1>3, <1>4, <1>5

(* When the environment holds positive numbers only, and neither it nor    *)
(* the command line one that is too large, the settings are what the       *)
(* writers and the service are modelled for: the assumptions of BaseWriter,*)
(* HECWriter and Metrics, and tickers that tick.                           *)
THEOREM PositiveEnvironmentSuffices ==
  ASSUME NEW flag \in Flags, NEW env \in Environments,
         \A s \in Numbers : /\ ~TooLarge(s, flag.number[s])
                            /\ \A n \in env.number[s] : n > 0 /\ ~TooLarge(s, n)
  PROVE  LET config == Parse(flag, env)
         IN  /\ \A s \in Numbers \ {"MaxConnections"} : config.number[s] \in Nat \ {0}
             /\ Start(config) # "panic"
<1>1. ASSUME NEW s \in Numbers \ {"MaxConnections"}
      PROVE  Parse(flag, env).number[s] \in Nat \ {0}
  <2>1. DefaultNumber[s] > 0
    BY DEF Numbers, DefaultNumber
  <2>2. flag.number[s] \in Int
    BY DEF Flags
  <2> QED
    BY <2>1, <2>2, NumberComesFrom, NumbersHaveDefaults
<1>2. Start(Parse(flag, env)) # "panic"
  <2>1. SUFFICES ASSUME Start(Parse(flag, env)) = "panic" PROVE FALSE
    OBVIOUS
  <2>2. PICK s \in {"BufferSize", "FlushInterval"} :
          \/ TooLarge(s, flag.number[s])
          \/ \E n \in env.number[s] : n <= 0 \/ TooLarge(s, n)
    BY <2>1, PanicNeedsEnvironment
  <2>3. s \in Numbers
    BY DEF Numbers, DefaultNumber
  <2>4. env.number[s] \in AtMostOne(Int)
    BY <2>3 DEF Environments
  <2>5. \A n \in env.number[s] : n \in Int
    BY <2>4 DEF AtMostOne
  <2> QED
    BY <2>2, <2>3, <2>5
<1> QED
  BY <1>1, <1>2

(* A switch that the environment turns on cannot be turned off by a flag,  *)
(* though config.go:69 says that flags take precedence: -enable-monitoring *)
(* =false is the same as no flag (config.go:240-246).                      *)
THEOREM FalseFlagLoses ==
  ASSUME NEW flag \in Flags, NEW env \in Environments, NEW s \in Switches,
         env.switch[s] = {TRUE}
  PROVE  Parse(flag, env).switch[s] = TRUE
<1>1. Parse(flag, env).switch[s] = GetConfigBoolValue(flag.switch[s], {TRUE}, FALSE)
  BY DEF Parse
<1>2. flag.switch[s] \in BOOLEAN
  BY DEF Flags
<1>3. GetEnv({TRUE}, FALSE) = TRUE
  BY DEF GetEnv
<1> QED
  BY <1>1, <1>2, <1>3 DEF GetConfigBoolValue

-----------------------------------------------------------------------------
(* The pipe reader                                                         *)

(* What is found is the text after the first colon of the line, wherever   *)
(* the JSON begins (pipe_reader/main.go:93-102).                           *)
THEOREM FindsFirstColon ==
  ASSUME NEW Char, NEW line \in Seq(Char),
         NEW i \in 1 .. Len(line), line[i] = ":", \A k \in 1 .. i - 1 : line[k] # ":",
         NEW j \in StartAfter(line, i)
  PROVE  FindJSONStart(line) = j
<1> DEFINE colons == {k \in 1 .. Len(line) : line[k] = ":" /\ StartAfter(line, k) # {}}
           first  == CHOOSE k \in colons : \A l \in colons : k <= l
<1>1. Len(line) \in Nat
  OBVIOUS
<1>2. i \in colons /\ \A l \in colons : i <= l
  BY <1>1
<1>3. first \in colons /\ \A l \in colons : first <= l
  BY <1>2
<1>4. first = i
  BY <1>1, <1>2, <1>3
<1>5. \A l \in StartAfter(line, i) : l = j
  BY <1>1 DEF StartAfter
<1> HIDE DEF colons, first
<1>6. FindJSONStart(line) = CHOOSE l \in StartAfter(line, first) : TRUE
  BY <1>2 DEF FindJSONStart, colons, first
<1> QED
  BY <1>4, <1>5, <1>6

(* In a syslog line it is never the JSON but the minutes of the time stamp,*)
(* the first colon of "Jan 02 15:04:05" (output/output.go:104-112), though *)
(* the comment at pipe_reader/main.go:89 promises the JSON after the header*)
THEOREM SyslogLineIsCutInItsTimeStamp ==
  ASSUME NEW Char, NEW line \in Seq(Char),
         NEW hours \in 1 .. Len(line), NEW json \in hours + 2 .. Len(line),
         line[hours] = ":", \A k \in 1 .. hours - 1 : line[k] # ":",
         line[hours + 1] \notin Blank
  PROVE  FindJSONStart(line) < json
<1>1. Len(line) \in Nat
  OBVIOUS
<1>2. hours + 1 \in StartAfter(line, hours)
  BY <1>1 DEF StartAfter
<1>3. FindJSONStart(line) = hours + 1
  BY <1>2, FindsFirstColon
<1> QED
  BY <1>3
=============================================================================
