------------------------------- MODULE MCSync -------------------------------
(* BoundedBuffer, Rendezvous (R of SyncProofs) and Console for TLC.  Each has *)
(* its own state and semaphores or locks; a behaviour is one of the three.    *)
EXTENDS SyncProofs, Integers

CONSTANTS p1, p2, g1, g2, x, y, t1, t2, t3, t4, Width, MaxLen, Stopped

VARIABLES
  part,                                       \* which of the three
  stage, calls, on, interrupts, ready, stopped, frames, text, taken, serial, due, off  \* of Console

rVars == <<value, left, rCount, rWaiting, rPc, result>>

cVars == <<stage, calls, on, interrupts, ready, stopped, frames, text, taken, serial, due, off>>

P == INSTANCE Printf

\* In each kernel, three threads on two cores that print and use the heap; one that
\* shuts the machine down, or panics while another one prints a debug line; and
\* each conversion by itself, between others.
prints(line) == [job |-> "print", line |-> line]
allocates == [job |-> "heap", line |-> <<>>]
shutsDown == [job |-> "shutdown", line |-> <<P!Conversion({}, 0, -1, "d", 1), P!Char("*")>>]
name == P!Conversion({}, 0, -1, "s", <<"a", "b">>)
number == P!Conversion({}, 0, -1, "d", 7)

debugs(flag) == [job |-> "debug", flag |-> flag, what |-> P!Char("i"), line |-> <<number>>]
panics == [job |-> "panic", line |-> <<P!Char("!")>>, core |-> P!Conversion({}, 0, -1, "d", 1)]

Integral ==
  {P!Conversion(f, w, p, c, v) :
     f \in {{}, {"-"}, {"0"}, {"+"}, {" ", "0"}, {"-", "+"}}, w \in {0, 5}, p \in {-1, 3},
     c \in {"d", "u", "o", "x", "X"}, v \in {0, 10, -3, 100}}
Fractional ==
  {P!Conversion(f, w, p, "f", v) :
     f \in {{}, {"-"}, {"0"}, {"+"}}, w \in {0, 7}, p \in {-1, 1, 2},
     v \in {<<3, 2>>, <<-5, 4>>, <<0, 1>>, <<1999, 1000>>}}
Textual ==
  {P!Conversion(f, w, p, "s", v) :
     f \in {{}, {"-"}}, w \in {0, 4}, p \in {-1, 1}, v \in {<<>>, <<"a", "b">>}}
  \cup {P!Conversion({}, 0, -1, "c", "a"), P!Conversion({}, 0, -1, "p", 90),
        P!Conversion({}, 0, -1, "%", 0)}

\* Where the code does what the C standard says.
Conforms(s) ==
  /\ ~ {"-", "0"} \subseteq s.flags
  /\ "0" \in s.flags => s.precision < 0 \/ s.conv = "f"
  /\ s.conv = "f" /\ "0" \in s.flags => s.arg[1] >= 0
  /\ s.conv = "s" => s.width = 0 \/ s.precision < 0

Crowded ==
  {[stage |-> s, cores |-> 2,
    calls |-> <<<<prints(<<name>>), allocates>>, <<allocates, prints(<<number>>)>>, <<allocates>>>>] :
     s \in {"p4", "p5", "p6"}}
Scenario ==
  Crowded
  \cup {[stage |-> "p4", cores |-> 2, calls |-> <<<<prints(<<name, number>>)>>, <<shutsDown>>>>]}
  \cup {[stage |-> "p4", cores |-> 2, calls |-> <<<<debugs(flag)>>, <<panics>>>>] : flag \in BOOLEAN}
  \cup {[stage |-> "p4", cores |-> 1, calls |-> <<<<prints(<<s, P!Char("|"), number>>)>>>>] :
          s \in {s \in Integral \cup Fractional \cup Textual : Conforms(s)}}

C == INSTANCE Console WITH Scenarios <- Scenario

SyncInit ==
  /\ part \in {"buffer", "rendezvous", "console"}
  /\ Init /\ R!Init /\ C!Init
  /\ part # "console" => stage = "p5"

\* Step i is a step of the i-th thread of its part, or of the i-th core.
Buffer(i) ==
  /\ part = "buffer"
  /\ LET t == <<p1, p2, g1, g2>>[i] IN Run(t) \/ Call(t)
  /\ UNCHANGED <<rVars, cVars>>
Gathers(i) ==
  /\ part = "rendezvous"
  /\ R!Run(<<t1, t2, t3, t4>>[i])
  /\ UNCHANGED <<vars, cVars>>
Timer(i) ==
  /\ part = "console" /\ i \in DOMAIN on
  /\ C!Turn(i)
  /\ UNCHANGED <<vars, rVars>>

Turn(i) == (Buffer(i) \/ Gathers(i) \/ Timer(i)) /\ UNCHANGED part
Prints(t) ==
  /\ part = "console" /\ t \in DOMAIN calls
  /\ C!Work(t)
  /\ UNCHANGED <<part, vars, rVars>>
Gives(i) ==
  /\ part = "console" /\ i \in DOMAIN on
  /\ C!Gives(i)
  /\ UNCHANGED <<part, vars, rVars>>

SyncNext == \E i \in 1..4 : Turn(i) \/ Prints(i) \/ Gives(i)

all == <<part, vars, rVars, cVars>>

\* Every thread gets a core again and again, and threads keep calling the buffer.  A
\* thread that prints or allocates gets on with it, though the timer may interrupt it.
SyncSpec ==
  /\ SyncInit /\ [][SyncNext]_all
  /\ \A i \in 1..4 : WF_all(Turn(i))
  /\ \A t \in 1..3 : SF_all(Prints(t))

-----------------------------------------------------------------------------
(* Properties *)

\* What is on the serial line is what C's printf would have printed, a call after
\* the other in the order in which they got the lock.
LinesWhole == C!LinesWhole

\* Nobody waits for ever: each put and get returns, each thread gets the value of
\* the future and leaves the barrier, and each call that prints or uses the heap
\* returns, though the timer interrupts those who have the lock.
EverybodyGetsThrough ==
  /\ CallsReturn
  /\ []<>(CASE part = "buffer"     -> TRUE
            [] part = "rendezvous" -> R!Through
            [] part = "console"    -> C!Returned)
=============================================================================
