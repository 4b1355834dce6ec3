----------------------------- MODULE MCService -----------------------------
(* The service for TLC: clients are interchangeable, and so are time stamps.*)
EXTENDS Service, Configuration, TLC

Symmetry == Permutations(Clients) \cup Permutations(Stamps)

(* The settings on which the service's start depends, over sample values   *)
(* on both sides of every comparison (StatelessProofs has all values).     *)
SampleFlags == {-1, 0, 1, 200, 9500}
SampleEnvs  == {{}, {-1}, {0}, {7}, {9000}}

Sample(f, e) ==
  Parse([number |-> f @@ [s \in Numbers |-> 0],
         text |-> [s \in Texts |-> ""], switch |-> [s \in Switches |-> FALSE]],
        [number |-> e @@ [s \in Numbers |-> {}],
         text |-> [s \in Texts |-> {}], switch |-> [s \in Switches |-> {}]])

ASSUME SamplesStart ==
  \A f \in [{"BufferSize", "FlushInterval", "MaxConnections"} -> SampleFlags],
     e \in [{"BufferSize", "FlushInterval", "MaxConnections"} -> SampleEnvs] :
    LET config == Sample(f, e)
    IN  /\ MaxConnectionsOf(config.number["MaxConnections"], config.number["BufferSize"]) \in Nat \ {0}
        /\ Start(config) = "panic" =>
             \E s \in {"BufferSize", "FlushInterval"} :
               \/ TooLarge(s, f[s])
               \/ f[s] <= 0 /\ \E n \in e[s] : n <= 0 \/ TooLarge(s, n)
=============================================================================
