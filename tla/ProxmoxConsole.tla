--------------------------- MODULE ProxmoxConsole ---------------------------
(***************************************************************************)
(* A Proxmox build with the goroutine that streams the installer's serial  *)
(* console: powerOnAndWaitForInstaller and streamSerialConsoleUntilStopped *)
(* of internal/backend/proxmox/proxmox.go, StreamSerialConsole of          *)
(* client.go.  The goroutine lives as long as the wait for the installer:  *)
(* what ends the wait cancels the goroutine's context and then waits for   *)
(* the goroutine itself, so that the builder is as stuck as the stream.    *)
(***************************************************************************)
EXTENDS ProxmoxBuild

VARIABLES
  stream,   \* where the goroutine is, "off" before and after the wait
  pending   \* the log compactor holds a line that it has not put out

consoleVars == <<vars, stream, pending>>

\* A POST to termproxy, the websocket, the handshake, the messages; after an
\* error a look at the VM and a delay; at the end the deferred Flush.
Connected == {"greet", "read"}
Streaming == {"proxy", "dial", "status", "delay", "flush"} \cup Connected

-----------------------------------------------------------------------------
(* The goroutine.                                                          *)

\* streamCtx: the wait is over, or the build was interrupted.
StreamDone == signalled \/ pc # "poll"

\* Mutant: a connection is left to its reader.
UnblockedOutside == StreamDone /\ stream \notin Connected

\* The goroutine that closes the connection under ReadMessage.
Unblocked == StreamDone

To(step) == /\ stream' = step
            /\ UNCHANGED <<vars, pending>>

\* A request or a message succeeds.  The context may end while it does.
StreamAdvances ==
  \/ stream = "proxy" /\ To("dial")
  \/ stream = "dial" /\ To("greet")
  \/ stream = "greet" /\ To("read")

\* What the guest printed, or a greeting that is not "OK", goes to the
\* compactor, which keeps a line until its end.
Receive ==
  /\ stream \in Connected
  /\ stream' = "read"
  /\ pending' \in BOOLEAN
  /\ UNCHANGED vars

\* Closed connections and early ends are transient, other errors are not;
\* with the context done neither matters.
StreamFails ==
  /\ stream \in {"proxy", "dial"} \cup Connected
  /\ IF StreamDone THEN Unblocked /\ To("flush")
                   ELSE To("status") \/ To("flush")

\* CurrentVMStatus: an error and "stopped" both end the stream.
StreamReadsStatus ==
  /\ stream = "status"
  /\ \/ /\ ~StreamDone
        /\ vm.owner # "none" /\ vm.power = "running"
        /\ To("delay")
     \/ To("flush")

\* consoleReconnectDelay
Reconnect ==
  /\ stream = "delay"
  /\ \/ StreamDone /\ To("flush")
     \/ To("proxy")

Flush ==
  /\ stream = "flush"
  /\ stream' = "off" /\ pending' = FALSE
  /\ UNCHANGED vars

Stream == StreamAdvances \/ Receive \/ StreamFails \/ StreamReadsStatus
            \/ Reconnect \/ Flush

\* The server owes the goroutine no answer, but the end of the context does.
StreamProceeds ==
  /\ stream \in {"delay", "flush"} \/ StreamDone
  /\ StreamFails \/ StreamReadsStatus \/ Reconnect \/ Flush

-----------------------------------------------------------------------------
(* The builder with its goroutine.                                         *)

\* Mutant: the deferred function cancels the stream and does not wait for it.
NotWaited == TRUE

StreamWaited == pc # "poll" => stream = "off"

BuilderSteps ==
  /\ StreamWaited
  /\ Builder
  /\ stream' = (IF pc # "poll" /\ pc' = "poll" THEN "proxy" ELSE stream)
  /\ UNCHANGED pending

Around == (Node \/ Signal \/ CleanupExpires) /\ UNCHANGED <<stream, pending>>

ConsoleInit == Init /\ stream = "off" /\ pending = FALSE

ConsoleNext == BuilderSteps \/ Around \/ Stream

ConsoleSpec ==
  /\ ConsoleInit /\ [][ConsoleNext]_consoleVars
  /\ WF_consoleVars(~Waiting /\ BuilderSteps)
  /\ WF_consoleVars(CleanupExpires /\ UNCHANGED <<stream, pending>>)
  /\ WF_consoleVars(StreamProceeds)

-----------------------------------------------------------------------------

\* The stream is over, its connection closed and its last line in the log,
\* before the build takes the serial port from the VM, or destroys the VM
\* after an interrupt, whatever the stream was doing when the wait ended.
StreamOverBeforeVMChanges ==
  /\ stream \in Connected => vm.owner = "ours" /\ vm.serial
  /\ pending => stream \in Streaming
  /\ stream \in Streaming => pc \in {"poll", "finalize", "return"} /\ ~awaiting
=============================================================================
