------------------------------- MODULE Output --------------------------------
(***************************************************************************)
(* What reaches the screen and the serial line while interrupts fall       *)
(* anywhere: the code paths of Locks with the writer of Console behind     *)
(* WRITER and the serial line behind SERIAL1.                              *)
(***************************************************************************)
EXTENDS Locks, Console

VARIABLE port   \* history: the flow that wrote each piece on the serial line

vars == <<lockVars, consoleVars, port>>

Init == LockInit /\ ConsoleInit /\ port = <<>>

\* Writer::write_fmt under the lock: any number of bytes.
WriteFmt ==
    /\ At("print")
    /\ \E byte \in Printable \cup Other \cup {Newline} : PrintByte(byte)
    /\ UNCHANGED <<lockVars, port>>

WriteFmtDone == Write("print") /\ UNCHANGED <<consoleVars, port>>

WriteColor ==
    /\ Write("color")
    /\ \E c \in Colors : SetColor(c)
    /\ UNCHANGED port

\* One piece of a message goes out to the UART.
WritePiece ==
    /\ Write("put")
    /\ port' = Append(port, active)
    /\ UNCHANGED consoleVars

\* No more calls are considered.
BoundReached ==
    /\ Idle /\ calls = MaxCalls
    /\ UNCHANGED vars

Next ==
    \/ LockNext /\ UNCHANGED <<consoleVars, port>>
    \/ WriteFmt
    \/ WriteFmtDone
    \/ WriteColor
    \/ WritePiece
    \/ BoundReached

Spec == Init /\ [][Next]_vars
-----------------------------------------------------------------------------
\* Messages on the serial line are whole: although the logger writes with
\* interrupts on, no handler's message gets inside another one, and none that
\* ordinary kernel code logs or prints is dropped for it.
MessagesWhole ==
    /\ \A k \in 1 .. Len(port) \div 2 : port[2 * k - 1] = port[2 * k]
    /\ lost["main"] = 0
=============================================================================
