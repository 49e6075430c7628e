--------------------------- MODULE ProvisionCommand ---------------------------
(***************************************************************************)
(* `provision` of a single node (cmd/beta/provision): the validation of    *)
(* the flags, the settings file, and the messages that the provisioning    *)
(* hands over an unbuffered channel to the goroutine that prints them.     *)
(***************************************************************************)
EXTENDS Naturals, FiniteSets

CONSTANT MaxMessages   \* of ProvisionBacalhauNodeWithCallback, each step sends two

ASSUME MaxMessagesAssumption == MaxMessages \in Nat \ {0}

VARIABLES
  node,      \* the flags and what the settings file holds
  step,      \* of runProvision and what it calls
  sent, printed,
  holding,   \* the printing goroutine has taken a message
  closed     \* the channel

provisionVars == <<node, step, sent, printed, holding, closed>>

\* Lines that parseLine refuses, besides blank ones and comments, and settings.
Refused == {"noColon", "badKey", "badValue"}
LineKinds == {"skipped", "setting"} \cup Refused

\* An argument is "none", "good", or what the checks object to.  The order of the lines of
\* the settings file does not matter here.
Nodes == {n \in [ip : {"good", "bad"}, key : {"good", "missing"},
                 orchestrator : {"none", "good", "bad"},
                 settings : {"none", "missing", "file"}, lines : SUBSET LineKinds] :
            n.settings # "file" => n.lines = {}}

NoNode == [ip |-> "good", key |-> "good", orchestrator |-> "none", settings |-> "none",
           lines |-> {}]

ProvisionInit ==
  /\ node = NoNode /\ step = "off"
  /\ sent = 0 /\ printed = 0
  /\ holding = FALSE /\ closed = FALSE

ProvisionSteps == {"connect", "ssh", "hostname", "docker", "connected", "settings", "node",
                   "nodeFailed", "failed", "close", "wait"}

\* Validate of types.go; the flags for address, user and key are required ones.
ValidNode(n) ==
  /\ n.ip = "good" /\ n.key = "good"
  /\ n.orchestrator # "bad"
  /\ n.settings # "missing"

\* parseReader and parseLine: the first line that is neither skipped nor a setting is an error.
Parses(n) == n.settings = "none" \/ n.lines \cap Refused = {}

RunProvision(n) ==
  /\ step = "off"
  /\ node' = n
  /\ step' \in {"connect", "error"}     \* NewProvisioner may object to the key
  /\ ~ValidNode(n) => step' = "error"
  /\ UNCHANGED <<sent, printed, holding, closed>>

\* updates <- ds, once the printing goroutine is back at its range.
Send ==
  /\ ~holding
  /\ holding' = TRUE
  /\ sent' = sent + 1

PrintUpdate ==
  /\ step \in ProvisionSteps
  /\ holding
  /\ holding' = FALSE
  /\ printed' = printed + 1
  /\ UNCHANGED <<node, step, sent, closed>>

Advance(from, to) ==
  /\ step = from
  /\ step' \in to
  /\ UNCHANGED <<node, sent, printed, holding, closed>>

SendAndGo(from, to) ==
  /\ step = from
  /\ Send
  /\ step' \in to
  /\ UNCHANGED <<node, printed, closed>>

\* ProvisionWithCallback, up to the settings file.
Connect ==
  \/ SendAndGo("connect", {"ssh"})
  \/ Advance("ssh", {"hostname", "failed"})
  \/ Advance("hostname", {"docker", "error"})
  \/ Advance("docker", {"connected", "error"})
  \/ SendAndGo("connected", {"settings"})

ParseFile == Advance("settings", IF Parses(node) THEN {"node"} ELSE {"error"})

\* ProvisionBacalhauNodeWithCallback; with a failed step it has sent a message too.
ProvisionNode ==
  \/ /\ sent < 2 + MaxMessages
     /\ SendAndGo("node", {"node", "nodeFailed"})
  \/ Advance("node", IF sent = 2 + MaxMessages THEN {"close"} ELSE {"nodeFailed"})

ReportFailure ==
  \/ SendAndGo("nodeFailed", {"error"})
  \/ SendAndGo("failed", {"error"})

\* Mutant: the command does not wait for the last message.
WaitForgets == {"ok"}

\* errGroup.Wait: the range ends when the channel is closed and drained.
AfterClose == {"wait"}

CloseUpdates ==
  /\ step = "close"
  /\ closed' = TRUE
  /\ step' \in AfterClose
  /\ UNCHANGED <<node, sent, printed, holding>>

Wait ==
  /\ closed /\ ~holding
  /\ Advance("wait", {"ok"})

\* The process ends, and with an error it leaves the printing goroutine and the open channel.
ForgetProvision ==
  /\ node' = NoNode /\ step' = "off"
  /\ sent' = 0 /\ printed' = 0
  /\ holding' = FALSE /\ closed' = FALSE

ProvisionStep ==
  \/ Connect \/ ParseFile \/ ProvisionNode \/ ReportFailure \/ CloseUpdates \/ Wait

ProvisionTypeOK ==
  /\ node \in Nodes
  /\ step \in ProvisionSteps \cup {"off", "ok", "error"}
  /\ sent \in 0..(3 + MaxMessages) /\ printed \in 0..(3 + MaxMessages)
  /\ holding \in BOOLEAN /\ closed \in BOOLEAN
==============================================================================
