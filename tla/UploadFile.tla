----------------------------- MODULE UploadFile -----------------------------
(***************************************************************************)
(* components/utilities/upload-file: an upload decodes the file, has the   *)
(* data-api generate a reference with a presigned post, and posts the file *)
(* to the storage.  Uploads of several callers run side by side.           *)
(***************************************************************************)
EXTENDS Integers, Sequences, FiniteSets

CONSTANTS
    Uploads,    \* the calls, each made once
    Files       \* contents of files, as decoded

VARIABLES
    file,       \* per upload what it is given, or Undecodable
    phase,      \* per upload "decode", "generate", "post" or "done"
    reference,  \* per upload the reference it has been given, 0 for none
    reply,      \* per upload what its caller got
    issued,     \* external: references the data-api has generated
    storage     \* external: per reference what was stored under it

uploadVars == <<file, phase, reference, reply, issued, storage>>

Undecodable == "not base64"
Nothing == "nothing"
Pending == [ok |-> FALSE, reference |-> 0, file |-> Nothing]
References == 1..Cardinality(Uploads)

ASSUME UploadAssumption == {Undecodable, Nothing} \intersect Files = {} /\ IsFiniteSet(Uploads)

UploadInit ==
    /\ file \in [Uploads -> Files \union {Undecodable}]
    /\ phase = [u \in Uploads |-> "decode"]
    /\ reference = [u \in Uploads |-> 0]
    /\ reply = [u \in Uploads |-> Pending]
    /\ issued = 0
    /\ storage = [r \in References |-> Nothing]

Goes(u, s) == phase' = [phase EXCEPT ![u] = s] /\ UNCHANGED reply
Fails(u) == phase' = [phase EXCEPT ![u] = "done"] /\ UNCHANGED reply

\* Mutant: the file is decoded only when it is posted.
DecodesLater(u) ==
    /\ phase[u] = "decode"
    /\ Goes(u, "generate")
    /\ UNCHANGED <<file, reference, issued, storage>>

DecodeFile(u) ==
    /\ phase[u] = "decode"
    /\ IF file[u] = Undecodable THEN Fails(u) ELSE Goes(u, "generate")
    /\ UNCHANGED <<file, reference, issued, storage>>

\* generateFileUploadRequest: the data-api generates a reference.  The reply
\* may get lost or not be a presigned post, and the reference with it.
Generate(u) ==
    /\ phase[u] = "generate"
    /\ issued' = issued + 1
    /\ \/ Goes(u, "post") /\ reference' = [reference EXCEPT ![u] = issued']
       \/ Fails(u) /\ UNCHANGED reference
    /\ UNCHANGED <<file, storage>>

\* The data-api answers with errors, or with no request at all.
GenerateRefused(u) ==
    /\ phase[u] = "generate"
    /\ Fails(u)
    /\ UNCHANGED <<file, reference, issued, storage>>

\* The storage takes the file, and its reply arrives or is lost.
Post(u) ==
    /\ phase[u] = "post"
    /\ storage' = [storage EXCEPT ![reference[u]] = file[u]]
    /\ \/ /\ phase' = [phase EXCEPT ![u] = "done"]
          /\ reply' = [reply EXCEPT ![u] = [ok |-> TRUE, reference |-> reference[u], file |-> file[u]]]
       \/ Fails(u)
    /\ UNCHANGED <<file, reference, issued>>

\* Mutant: the status of the reply is not looked at.
PostUnchecked(u) ==
    /\ phase[u] = "post"
    /\ phase' = [phase EXCEPT ![u] = "done"]
    /\ reply' = [reply EXCEPT ![u] = [ok |-> TRUE, reference |-> reference[u], file |-> file[u]]]
    /\ UNCHANGED <<file, reference, issued, storage>>

\* The request does not get through or the status is 300 or more.
PostRefused(u) ==
    /\ phase[u] = "post"
    /\ Fails(u)
    /\ UNCHANGED <<file, reference, issued, storage>>

UploadNext ==
    \E u \in Uploads : DecodeFile(u) \/ Generate(u) \/ GenerateRefused(u) \/ Post(u) \/ PostRefused(u)

-----------------------------------------------------------------------------
\* An upload that returns Ok has its own file stored under the reference it
\* returns, and no other upload was given that reference.
OkMeansStored ==
    \A u \in Uploads : reply[u].ok =>
        /\ storage[reply[u].reference] = file[u]
        /\ \A v \in Uploads \ {u} : reference[v] # reply[u].reference

\* For a file that cannot be decoded nothing is generated and nothing stored:
\* there are no more references than uploads with a file.
UndecodableAsksNothing ==
    issued <= Cardinality({u \in Uploads : phase[u] # "decode" /\ file[u] # Undecodable})
=============================================================================
