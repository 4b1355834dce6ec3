--------------------------- MODULE Configuration ---------------------------
(***************************************************************************)
(* Where the settings come from and what they make of the start:           *)
(* config.Parse with its getters, the connection limit of NewService, and  *)
(* what stops the process before it accepts (config/config.go, main.go,    *)
(* the constructors of output/). Pure operators.                           *)
(*                                                                         *)
(* flag[s] is the value of a flag, zero or empty if it is not given.       *)
(* env[s] is the set of the values that the environment gives: none if the *)
(* variable is unset, empty or not a number, else one. Times are in        *)
(* seconds and sizes in MB; their conversion is modelled where the start   *)
(* depends on it, for the flush interval.                                  *)
(***************************************************************************)
EXTENDS Integers

CONSTANTS
  MaxCapacity,       (* the pointers that make can allocate room for       *)
  Second, MaxDuration    (* of a time.Duration: 10^9 and 2^63 - 1 (nsec)   *)

(* The numbers, the texts on which the start depends, and their defaults.  *)
DefaultNumber ==
  [BufferSize |-> 100, BatchSize |-> 1, FlushInterval |-> 5, MaxConnections |-> 0,
   MaxFileSize |-> 100, MaxFiles |-> 5, HECMaxRetries |-> 3, HECRetryDelay |-> 1,
   HECBufMaxSize |-> 100, MonitoringPort |-> 8080, ConnectionTimeout |-> 300,
   ReadTimeout |-> 30, MaxLatencySamples |-> 1000]

ASSUME SizesAssumption ==
  /\ {MaxCapacity, Second, MaxDuration} \subseteq Nat \ {0}
  /\ DefaultNumber["BufferSize"] <= MaxCapacity
  /\ DefaultNumber["FlushInterval"] * Second <= MaxDuration

DefaultText == [OutputType |-> "pipe", HECURL |-> "", HECToken |-> ""]

Numbers  == DOMAIN DefaultNumber
Texts    == DOMAIN DefaultText
Switches == {"HECCircuitBreaker", "HECPersistentBuf", "EnableMonitoring", "PerformanceLogging"}

GetEnv(env, default) == IF env = {} THEN default ELSE CHOOSE v \in env : TRUE

GetConfigValue(flag, env, default)     == IF flag # "" THEN flag ELSE GetEnv(env, default)
GetConfigIntValue(flag, env, default)  == IF flag > 0 THEN flag ELSE GetEnv(env, default)
GetConfigBoolValue(flag, env, default) == flag \/ GetEnv(env, default)

Parse(flag, env) ==
  [number |-> [s \in Numbers  |-> GetConfigIntValue(flag.number[s], env.number[s], DefaultNumber[s])],
   text   |-> [s \in Texts    |-> GetConfigValue(flag.text[s], env.text[s], DefaultText[s])],
   switch |-> [s \in Switches |-> GetConfigBoolValue(flag.switch[s], env.switch[s], FALSE)]]

AtMostOne(S) == {{}} \cup {{v} : v \in S}

Flags == [number : [Numbers -> Int], text : [Texts -> STRING], switch : [Switches -> BOOLEAN]]
Environments ==
  [number : [Numbers -> AtMostOne(Int)], text : [Texts -> AtMostOne(STRING \ {""})],
   switch : [Switches -> AtMostOne(BOOLEAN)]]

-----------------------------------------------------------------------------
(* NewService: the limit that is used                                      *)

Clamp(n, low, high) == IF n < low THEN low ELSE IF n > high THEN high ELSE n

MaxConnectionsOf(maxConnections, bufferSize) ==
  IF maxConnections > 0 THEN maxConnections
  ELSE IF bufferSize > 0 THEN Clamp(bufferSize \div 10, 10, 500)
  ELSE 100

-----------------------------------------------------------------------------
(* What the settings alone decide about the start: NewWriter refuses the   *)
(* type or a Splunk endpoint without URL or token, make refuses a capacity *)
(* that is negative or that cannot be allocated, and NewTicker an interval *)
(* that is not positive, as one of centuries may be: the seconds wrap      *)
(* around when they are converted.                                         *)
Duration(seconds) ==
  ((seconds * Second + MaxDuration + 1) % (2 * (MaxDuration + 1))) - (MaxDuration + 1)

Start(config) ==
  LET type == config.text["OutputType"]
  IN  IF type \notin {"pipe", "socket", "file", "hec"} THEN "error"
      ELSE IF type = "hec" /\ (config.text["HECURL"] = "" \/ config.text["HECToken"] = "")
      THEN "error"
      ELSE IF config.number["BufferSize"] \notin 0 .. MaxCapacity THEN "panic"
      ELSE IF Duration(config.number["FlushInterval"]) <= 0 THEN "panic"
      ELSE "runs"

(* More than can be allocated, or than a time.Duration can hold.           *)
TooLarge(s, n) ==
  \/ s = "BufferSize" /\ n > MaxCapacity
  \/ s = "FlushInterval" /\ n * Second > MaxDuration
=============================================================================
