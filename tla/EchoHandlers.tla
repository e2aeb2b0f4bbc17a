---------------------------- MODULE EchoHandlers ----------------------------
(***************************************************************************)
(* The echo service handlers: TestUdpServer::fooHandle                     *)
(* (src/test/echoUdp/server.cpp) and FooServiceImpl::Foo and               *)
(* BarServiceImpl::Bar (src/example/example_innerRpc/main.cpp).  Each      *)
(* answers a request (text, times) with the text repeated by the loop      *)
(*     str = text; for (i = 1; i < times; i++) str += " " + text;          *)
(* A string is a sequence of characters from a small alphabet; times is    *)
(* the int32 field, negative values included.                               *)
(***************************************************************************)
EXTENDS Integers, Sequences, SequencesExt

CONSTANTS
    Chars,    \* the characters texts are made of
    Blank,    \* the character " "
    MaxLen,   \* longest request text
    Times     \* values of the times field

ASSUME Blank \notin Chars

Texts == UNION {[1..n -> Chars] : n \in 0..MaxLen}
Request == [text : Texts, times : Times]

VARIABLES
    req,  \* the request received
    out   \* the responses sent: <<>> or one record

vars == <<req, out>>

RepeatFromZero(text, times) ==
    FoldLeft(LAMBDA str, i : str \o <<Blank>> \o text, text,
             [i \in 1..(times - 0) |-> i])

\* The handlers' loop: times - 1 more copies, each after a blank.
Repeat(text, times) ==
    FoldLeft(LAMBDA str, i : str \o <<Blank>> \o text, text,
             [i \in 1..(times - 1) |-> i])

\* fooHandle: the repeated text in a FooResponse sent as message type 1.
HandleUdp ==
    /\ out = <<>>
    /\ out' = <<[via |-> "udp", type |-> 1, text |-> Repeat(req.text, req.times)]>>
    /\ UNCHANGED req

\* FooServiceImpl::Foo: the repeated text, result = true.
HandleFoo ==
    /\ out = <<>>
    /\ out' = <<[via |-> "foo", result |-> TRUE, text |-> Repeat(req.text, req.times)]>>
    /\ UNCHANGED req

\* BarServiceImpl::Bar: the same for a BarRequest.
HandleBar ==
    /\ out = <<>>
    /\ out' = <<[via |-> "bar", result |-> TRUE, text |-> Repeat(req.text, req.times)]>>
    /\ UNCHANGED req

\* The request has been answered.
Answered ==
    /\ out # <<>>
    /\ UNCHANGED vars

Init ==
    /\ req \in Request
    /\ out = <<>>

Next == HandleUdp \/ HandleFoo \/ HandleBar \/ Answered

Spec == Init /\ [][Next]_vars

-----------------------------------------------------------------------------

\* Reference: k = max(times, 1) copies of the text separated by single
\* blanks, position by position.
Joined(text, times) ==
    LET k == IF times < 1 THEN 1 ELSE times
        w == Len(text) + 1
    IN [i \in 1..(k * w - 1) |->
          IF i % w = 0 THEN Blank ELSE text[((i - 1) % w) + 1]]

\* Every response carries exactly max(times, 1) copies of the request text
\* joined by blanks: a times of 0 or less still echoes the text once.
EchoText ==
    \A i \in 1..Len(out) : out[i].text = Joined(req.text, req.times)

=============================================================================
