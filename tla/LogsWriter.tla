----------------------------- MODULE LogsWriter -----------------------------
(***************************************************************************)
(* components/logs-writer: one call of send_log_and_variables, which posts *)
(* the logs and then the variables of its application to the logs service. *)
(***************************************************************************)
EXTENDS Integers, FiniteSets, SequencesExt

CONSTANTS
    Applications,   \* ids of applications
    Own,            \* APPLICATION_ID
    MaxMessages     \* bound of the model: messages of a call

ASSUME LogsAssumption == Own \in Applications /\ MaxMessages \in Nat

VARIABLES
    configured, \* the environment has what it needs
    messages,   \* the messages: of an application each, in their order
    variables,  \* the variables: the applications that have some
    readable,   \* what parses: the messages that do, and whether the variables do
    stage,      \* "start", "logs", "variables" or "done"
    posted,     \* the requests that were attempted, in order
    logs,       \* external: what the service has taken of the logs
    taken       \* external: what the service has taken of the variables

logsVars == <<configured, messages, variables, readable, stage, posted, logs, taken>>
input == <<configured, messages, variables, readable>>

NoLogs == [taken |-> FALSE, of |-> <<>>]
NoVariables == [taken |-> FALSE, of |-> {}]

LogsInit ==
    /\ configured \in BOOLEAN
    /\ messages \in SeqOf(Applications, MaxMessages)
    /\ variables \in SUBSET Applications
    /\ readable \in [messages : SUBSET DOMAIN messages, variables : BOOLEAN]
    /\ stage = "start"
    /\ posted = <<>>
    /\ logs = NoLogs
    /\ taken = NoVariables

\* Mutant: messages that do not parse are passed over.
ParsesSome == readable.variables

\* parse_messages_json and parse_variables_json: one that fails is one too many.
AllParse == readable.messages = DOMAIN messages /\ readable.variables

Prepare ==
    /\ stage = "start"
    /\ stage' = IF configured /\ AllParse THEN "logs" ELSE "done"
    /\ UNCHANGED <<input, posted, logs, taken>>

\* The places in their order (filter and collect).
InOrder(places) ==
    CHOOSE s \in [1..Cardinality(places) -> places] : \A i, j \in DOMAIN s : i < j => s[i] < s[j]

FilterMessages ==
    LET kept == InOrder({i \in DOMAIN messages : messages[i] = Own})
    IN  [k \in DOMAIN kept |-> [at |-> kept[k], of |-> messages[kept[k]]]]

FilterVariables == {a \in variables : a = Own}

\* Mutant: without the logs the variables are not sent either.
PostLogsOrStop ==
    /\ stage = "logs"
    /\ posted' = Append(posted, "logs")
    /\ \/ logs' = [taken |-> TRUE, of |-> FilterMessages] /\ stage' = "variables"
       \/ UNCHANGED logs /\ stage' = "done"
    /\ UNCHANGED <<input, taken>>

\* The post of the logs: whatever becomes of it, only the log tells.
PostLogs ==
    /\ stage = "logs"
    /\ posted' = Append(posted, "logs")
    /\ logs' \in {NoLogs, [taken |-> TRUE, of |-> FilterMessages]}
    /\ stage' = "variables"
    /\ UNCHANGED <<input, taken>>

PostVariables ==
    /\ stage = "variables"
    /\ posted' = Append(posted, "variables")
    /\ taken' \in {NoVariables, [taken |-> TRUE, of |-> FilterVariables]}
    /\ stage' = "done"
    /\ UNCHANGED <<input, logs>>

LogsNext == Prepare \/ PostLogs \/ PostVariables

-----------------------------------------------------------------------------
\* Of the logs the service gets all that are the application's, in their order,
\* or none, and none of a call with a message or variables that do not parse.
LogsAllOrNothing ==
    logs.taken =>
        /\ readable.messages = 1..Len(messages) /\ readable.variables
        /\ Len(logs.of) = Cardinality({i \in DOMAIN messages : messages[i] = Own})
        /\ \A i, j \in DOMAIN logs.of : i < j => logs.of[i].at < logs.of[j].at

\* A call that gets as far as the logs sends the variables too, once each,
\* although the logs may have failed (send_log_and_variables).
BothAreSent == stage = "done" /\ posted # <<>> => posted = <<"logs", "variables">>
=============================================================================
