----------------------------- MODULE MCDevices ------------------------------
(* The drivers on two CPUs with three processes. *)
EXTENDS Devices

Rw == [call |-> "rw", n |-> 0]
CWrite(k) == [call |-> "cwrite", n |-> k]
CRead(k) == [call |-> "cread", n |-> k]
Nap(k) == [call |-> "nap", n |-> k]

Load(cpus, calls, keys, kills, timer1, timer2) ==
    [cpus |-> cpus, calls |-> calls, keys |-> keys, kills |-> kills, timer |-> <<timer1, timer2>>]

\* Three requests for two chains of descriptors; kills; time slices; every line
\* of three keys; output, echo and input at once; all drivers on one CPU.
SomeWorkloads ==
    {Load({1, 2}, <<<<Rw>>, <<Rw>>, <<Rw>>>>, <<>>, 0, 0, 0),
     Load({1}, <<<<Rw>>, <<Rw>>, <<CRead(1)>>>>, <<>>, 1, 0, 0),
     Load({1, 2}, <<<<Rw>>, <<Rw>>, <<>>>>, <<>>, 0, 1, 1),
     Load({1}, <<<<CRead(2), CRead(2)>>, <<>>, <<>>>>, <<Keys, Keys, Keys>>, 0, 0, 0),
     Load({1, 2}, <<<<CRead(2)>>, <<CWrite(1)>>, <<>>>>, <<{"a", "H"}, {"nl", "D"}>>, 0, 0, 0),
     Load({1}, <<<<Nap(2)>>, <<CWrite(3)>>, <<>>>>, <<>>, 1, 1, 0),
     Load({1}, <<<<Nap(1)>>, <<CWrite(2)>>, <<Rw>>>>, <<>>, 0, 2, 0)}
=============================================================================
