------------------------------ MODULE Commands ------------------------------
(* The commands of cmd/pageup/main.go that publish, update and delete, with  *)
(* client/client.go under them, and the life of the server's process         *)
(* (cmd/pageup-server/main.go) around the requests that they send.  What a   *)
(* request does to the stores is one step here; HostedFiles and Pages have   *)
(* its details.                                                              *)
(*                                                                           *)
(* Files are edited while commands read them, answers are lost, commands     *)
(* give up or are killed, and requests they have sent are carried out later. *)
EXTENDS Device

CONSTANTS
    Path, Stdin,  \* files that commands name; "-" is one of them
    Extension,    \* of a path: "html", "none" or "other"
    Body, Kind,   \* a body is of kind "html", "text" or "site": a directory
    Mixed,        \* a body that is neither what a file was nor what it became
    Disks, Edited, Editable,
    Initial,      \* pages and files that the server has at the start
    Authorized,   \* keys
    MaxArgs, MaxEdits, MaxStops  \* bounds

(* What the i-th argument of command c makes is named <<c, i>>.              *)
Id == DOMAIN Initial \cup (Command \X (1 .. MaxArgs))
Nothing == [kind |-> "nothing", body |-> Absent]
Gone == [kind |-> "gone", body |-> Absent]
Stored == [kind : {"page", "file"}, body : Body \cup {Mixed}] \cup {Nothing, Gone}

(* What a command is asked to do: its operation, the files it names, the     *)
(* kind and the id that parseTarget finds in its URL, its flags, the key in  *)
(* its environment, and the version of the program.                          *)
Call == [op : {"init", "install", "upload", "files", "update", "delete"},
         args : Seq(Path), kind : {"any", "page", "file"}, id : DOMAIN Initial,
         json : BOOLEAN, named : BOOLEAN, force : BOOLEAN,
         env : Key \cup {NoKey}, version : Version]
Reading == {"upload", "files", "update"}

ASSUME StartAssumption ==
    \A s \in Starts :
        /\ s.call \in [Command -> Call] /\ s.config \in Key \cup {NoKey}
        /\ s.skill \in [SkillFile -> Version \cup {Absent}]
        /\ \A c \in Command :
              /\ Len(s.call[c].args) <= MaxArgs
              /\ s.call[c].op = "delete" => s.call[c].args = <<>>
              /\ s.call[c].op \in Reading => s.call[c].args # <<>>
              /\ s.call[c].op = "upload" => s.call[c].kind = "any"
              /\ s.call[c].op \in {"upload", "update"} => Len(s.call[c].args) = 1
              /\ s.call[c].op = "files" => s.call[c].kind = "file"
ASSUME InitialAssumption ==
    /\ Initial \in [DOMAIN Initial -> [kind : {"page", "file"}, body : Body]]
    /\ DOMAIN Initial \cap (Command \X (1 .. MaxArgs)) = {}
ASSUME PathAssumption == Stdin \in Path /\ Editable \subseteq Path \ {Stdin}
                         /\ Extension \in [Path -> {"html", "none", "other"}]
ASSUME BodyAssumption == /\ Kind \in [Body -> {"html", "text", "site"}]
                         /\ Mixed \notin Body /\ Absent \notin Body /\ Mixed # Absent
                         /\ Disks \subseteq [Path -> Body \cup {Absent}]
                         /\ Edited \subseteq Body \cup {Absent}
ASSUME BoundAssumption == MaxArgs \in Nat /\ MaxEdits \in Nat /\ MaxStops \in Nat

VARIABLES
    disk, edits,
    key,      \* the key that a command has loaded
    kind,     \* whether it publishes a page or a file
    body,     \* what it has read, or hashed
    results,  \* what the server has answered to it
    printed,
    request,  \* its latest request: it may outlive the command
    store,    \* what the server has
    server,   \* "running", "stopping" or "exited"
    stops

command == <<key, kind, body, results, printed>>
network == <<request, store>>
lifecycle == <<server, stops>>
editor == <<disk, edits>>
vars == <<deviceVars, command, network, lifecycle, editor>>

Request == [state : {"none", "sent", "received", "ok", "refused", "cut"},
            method : {"create", "update", "delete"}, endpoint : {"page", "file"},
            id : Id, hash : Body \cup {Absent}, body : Body \cup {Absent, Mixed}]
NoRequest(c) == [state |-> "none", method |-> "create", endpoint |-> "page",
                 id |-> call[c].id, hash |-> Absent, body |-> Absent]
Arg(c) == call[c].args[at[c]]
NewId(c) == <<c, at[c]>>

FirstStep(op) == CASE op = "init" -> "check"
                   [] op = "install" -> "stat"
                   [] op = "upload" -> "classify"
                   [] op \in {"files", "update", "delete"} -> "load"

Init ==
    /\ InitDevice
    /\ pc = [c \in Command |-> FirstStep(call[c].op)]
    /\ disk \in Disks /\ edits = 0
    /\ key = [c \in Command |-> NoKey]
    /\ kind = [c \in Command |-> call[c].kind]
    /\ body = [c \in Command |-> Absent]
    /\ results = [c \in Command |-> {}] /\ printed = [c \in Command |-> {}]
    /\ request = [c \in Command |-> NoRequest(c)]
    /\ store = [i \in Id |-> IF i \in DOMAIN Initial THEN Initial[i] ELSE Nothing]
    /\ server = "running" /\ stops = 0

Edit(p, b) ==
    /\ edits < MaxEdits /\ edits' = edits + 1
    /\ b # disk[p] /\ disk' = [disk EXCEPT ![p] = b]
    /\ UNCHANGED <<deviceVars, command, network, lifecycle>>

-----------------------------------------------------------------------------
(* The operators Bad... are mistakes that this code could contain in place of *)
(* the definition that follows them; README.md names what each would break.  *)

(* A failing uploadFiles with --json prints what it has made so far.         *)
BadPrintedOnFailure(c) == printed[c]
PrintedOnFailure(c) == printed[c] \cup results[c]

Fails(c) == Ends(c, "failed") /\ printed' = [printed EXCEPT ![c] = PrintedOnFailure(c)]

(* LoadConfig: a key in the environment goes before the one in the file.     *)
AfterLoad(c) ==
    IF call[c].op = "delete" \/ (call[c].op = "upload" /\ kind[c] = "page") THEN "send"
    ELSE IF call[c].op = "update" /\ kind[c] = "any" THEN "classify" ELSE "read"

Load(c) ==
    LET loaded == IF call[c].env # NoKey THEN call[c].env ELSE config IN
    /\ Running(c, "load")
    /\ key' = [key EXCEPT ![c] = loaded]
    /\ \/ loaded = NoKey /\ Fails(c)
       \/ loaded # NoKey /\ UNCHANGED printed /\ Step(c, AfterLoad(c))
    /\ UNCHANGED <<call, device, faults, kills, kind, body, results, network, lifecycle, editor>>

(* isHostedFile: by the extension, or else by the content.                   *)
BadIsHostedFile(p) == p # Stdin /\ Kind[disk[p]] # "site" /\ Extension[p] = "other"
IsHostedFile(p) ==
    /\ p # Stdin /\ Kind[disk[p]] # "site"
    /\ \/ Extension[p] = "other"
       \/ Extension[p] = "none" /\ Kind[disk[p]] # "html"

Classify(c) ==
    /\ Running(c, "classify")
    /\ \/ disk[Arg(c)] = Absent /\ Fails(c) /\ UNCHANGED kind
       \/ /\ disk[Arg(c)] # Absent /\ UNCHANGED printed
          /\ LET file == IsHostedFile(Arg(c)) IN
             /\ kind' = [kind EXCEPT ![c] = IF file THEN "file" ELSE "page"]
             /\ Step(c, IF call[c].op = "upload" /\ file THEN "load" ELSE "read")
    /\ UNCHANGED <<call, device, faults, kills, key, body, results, network, lifecycle, editor>>

(* readArtifact reads a page, and packs a directory; openFileContent takes   *)
(* regular files only, and doSignedStream hashes what is in them.  A name    *)
(* is for files, and standard input needs one to become a new file.          *)
BadReadable(c) == kind[c] # "file" => ~call[c].named
Readable(c) ==
    /\ disk[Arg(c)] # Absent
    /\ kind[c] = "file" => Kind[disk[Arg(c)]] # "site"
    /\ kind[c] # "file" => ~call[c].named
    /\ kind[c] = "file" /\ call[c].op # "update" /\ Arg(c) = Stdin => call[c].named

Read(c) ==
    /\ Running(c, "read")
    /\ \/ ~Readable(c) /\ Fails(c) /\ UNCHANGED body
       \/ /\ Readable(c) /\ UNCHANGED printed
          /\ body' = [body EXCEPT ![c] = disk[Arg(c)]]
          /\ Step(c, IF call[c].op = "upload" /\ kind[c] = "page" THEN "load" ELSE "send")
    /\ UNCHANGED <<call, device, faults, kills, key, kind, results, network, lifecycle, editor>>

(* The URL of a request says page or file; parseTarget and runDelete do not  *)
(* let a page be deleted.                                                    *)
Method(c) == IF call[c].op \in {"upload", "files"} THEN "create" ELSE call[c].op
Endpoint(c) == IF Method(c) = "delete" \/ kind[c] = "file" THEN "file" ELSE "page"
Sendable(c) == ~(Method(c) = "delete" /\ kind[c] = "page") /\ server = "running"

Send(c) ==
    /\ Running(c, "send")
    /\ \/ ~Sendable(c) /\ Fails(c) /\ UNCHANGED request
       \/ /\ Sendable(c) /\ Step(c, "wait") /\ UNCHANGED printed
          /\ request' = [request EXCEPT ![c] =
                [state |-> "sent", method |-> Method(c), endpoint |-> Endpoint(c),
                 id |-> IF Method(c) = "create" THEN NewId(c) ELSE call[c].id,
                 hash |-> body[c], body |-> Absent]]
    /\ UNCHANGED <<call, device, faults, kills, key, kind, body, results, store, lifecycle, editor>>

-----------------------------------------------------------------------------
(* The server takes a request in: the body of a file is streamed from the    *)
(* disk now, and may have changed since it was hashed.                       *)
Streamed(c) ==
    LET r == request[c] IN
    IF r.endpoint = "page" \/ r.method = "delete" \/ disk[Arg(c)] = r.hash THEN {r.hash}
    ELSE {r.hash, Mixed} \cup ({disk[Arg(c)]} \ {Absent})

Receive(c) ==
    /\ request[c].state = "sent" /\ server # "exited"
    /\ \E b \in Streamed(c) :
          request' = [request EXCEPT ![c].state = "received", ![c].body = b]
    /\ UNCHANGED <<deviceVars, command, store, lifecycle, editor>>

(* An endpoint for pages finds no files, and one for files no pages.         *)
Found(r) == store[r.id].kind = r.endpoint

BadMayHandle(c) == /\ key[c] \in Authorized
                   /\ request[c].method # "create" => Found(request[c])
MayHandle(c) == /\ key[c] \in Authorized
                /\ request[c].body = request[c].hash
                /\ request[c].method # "create" => Found(request[c])

Outcome(r) == IF r.method = "delete" THEN Gone ELSE [kind |-> r.endpoint, body |-> r.body]
Answered(c, answer) ==
    request' = [request EXCEPT ![c].state = answer]

(* It is carried out or refused, for these reasons or for others; a write    *)
(* that happened can be reported as failed.                                  *)
Handle(c) ==
    /\ request[c].state = "received"
    /\ \/ Answered(c, "refused") /\ UNCHANGED <<store, faults>>
       \/ /\ MayHandle(c) /\ store' = [store EXCEPT ![request[c].id] = Outcome(request[c])]
          /\ \/ Answered(c, "ok") /\ UNCHANGED faults
             \/ Answered(c, "refused") /\ Fault
    /\ UNCHANGED <<call, process, device, kills, command, lifecycle, editor>>

-----------------------------------------------------------------------------
(* An answer that is not 2xx is an error (decodeResponse).                   *)
BadIsSuccess(r) == r.state \in {"ok", "refused"}
IsSuccess(r) == r.state = "ok"

Done(c) == at[c] >= Len(call[c].args)

Answer(c) ==
    /\ Running(c, "wait") /\ request[c].state \in {"ok", "refused"}
    /\ \/ ~IsSuccess(request[c]) /\ Fails(c) /\ UNCHANGED results
       \/ /\ IsSuccess(request[c])
          /\ results' = [results EXCEPT ![c] = @ \cup {request[c].id}]
          /\ printed' = [printed EXCEPT ![c] = IF call[c].json /\ ~Done(c) THEN @ ELSE results'[c]]
          /\ \/ Done(c) /\ Ends(c, "ok")
             \/ /\ ~Done(c) /\ pc' = [pc EXCEPT ![c] = "read"]
                /\ at' = [at EXCEPT ![c] = @ + 1] /\ UNCHANGED status
    /\ UNCHANGED <<call, device, faults, kills, key, kind, body, network, lifecycle, editor>>

(* Every command bounds its requests by a deadline; a lost connection ends   *)
(* them sooner.  What was sent may be carried out all the same.              *)
BadOverdue(c) == request[c].state = "cut"
Overdue(c) == TRUE

GivesUp(c) ==
    /\ Running(c, "wait") /\ Overdue(c) /\ Fails(c)
    /\ UNCHANGED <<call, device, faults, kills, key, kind, body, results, network, lifecycle, editor>>

Kill(c) ==
    /\ status[c] = "running" /\ kills < MaxKills /\ kills' = kills + 1
    /\ Ends(c, "killed")
    /\ UNCHANGED <<call, device, faults, command, network, lifecycle, editor>>

-----------------------------------------------------------------------------
(* SIGTERM: Shutdown closes the listener, ListenAndServe returns, and main   *)
(* with it; nothing waits for Shutdown, which waits for the handlers.        *)
Signal ==
    /\ server = "running" /\ stops < MaxStops /\ stops' = stops + 1
    /\ server' = "stopping"
    /\ UNCHANGED <<deviceVars, command, network, editor>>

InProgress(c) == request[c].state \in {"sent", "received"}

Exit ==
    /\ server = "stopping" /\ server' = "exited"
    /\ request' = [c \in Command |-> IF InProgress(c) THEN [request[c] EXCEPT !.state = "cut"]
                                     ELSE request[c]]
    /\ UNCHANGED <<deviceVars, command, store, stops, editor>>

\* The service manager starts it again.
Restart == /\ server = "exited" /\ server' = "running"
         /\ UNCHANGED <<deviceVars, command, network, stops, editor>>

-----------------------------------------------------------------------------
ClientStep(c) == \/ (DeviceStep(c) /\ UNCHANGED <<command, network, lifecycle, editor>>)
                 \/ Load(c) \/ Classify(c) \/ Read(c) \/ Send(c) \/ Answer(c) \/ GivesUp(c)

Terminating == (\A c \in Command : status[c] # "running") /\ UNCHANGED vars

Next == \/ \E c \in Command : ClientStep(c) \/ Kill(c) \/ Receive(c) \/ Handle(c)
        \/ \E p \in Editable, b \in Edited : Edit(p, b)
        \/ Signal \/ Exit \/ Restart
        \/ Terminating

(* Commands run; that requests arrive, that handlers finish or that a server *)
(* starts again is not assumed.                                              *)
Spec == Init /\ [][Next]_vars
FairSpec == Spec /\ \A c \in Command : WF_vars(ClientStep(c))

-----------------------------------------------------------------------------
CommandOK ==
    /\ disk \in [Path -> Body \cup {Absent}] /\ edits \in 0 .. MaxEdits
    /\ key \in [Command -> Key \cup {NoKey}]
    /\ kind \in [Command -> {"any", "page", "file"}]
    /\ body \in [Command -> Body \cup {Absent}]
    /\ results \in [Command -> SUBSET Id] /\ printed \in [Command -> SUBSET Id]
    /\ request \in [Command -> Request] /\ store \in [Id -> Stored]
    /\ server \in {"running", "stopping", "exited"} /\ stops \in 0 .. MaxStops

(* A command is at a step of its own operation and at one of its arguments,  *)
(* and has read what it sends.                                               *)
StepsOK ==
    \A c \in Command :
        /\ pc[c] \in {"check", "save"} <=> call[c].op = "init"
        /\ pc[c] \in {"stat"} \cup Installing <=> call[c].op = "install"
        /\ pc[c] \in {"classify", "read"} => call[c].op \in Reading
        /\ call[c].op \in Reading => at[c] \in DOMAIN call[c].args
        /\ call[c].op = "install" => at[c] \in DOMAIN SkillFiles
        /\ pc[c] = "send" /\ call[c].op \in Reading => body[c] \in Body
        /\ pc[c] = "load" /\ call[c].op = "upload" /\ kind[c] = "page" => body[c] \in Body
        /\ request[c].state # "none" /\ request[c].method # "delete"
           => request[c].hash \in Body /\ call[c].op \in Reading

TypeOK == DeviceOK /\ CommandOK /\ StepsOK

(* A command that was not killed has printed the URL of everything it has    *)
(* made on the server, whichever argument failed and however it prints,      *)
(* except for the one request that it got no good answer to.                 *)
Made(c) == {i \in {c} \X (1 .. MaxArgs) : store[i] # Nothing}
MadeIsReported ==
    \A c \in Command :
        /\ status[c] = "failed" => Made(c) \subseteq printed[c] \cup {NewId(c)}
        /\ status[c] = "ok" => Made(c) \subseteq printed[c]

(* What a command has printed is true for good: what it says it made was     *)
(* made, and what it says it deleted is gone.                                *)
ReportedIsTrue ==
    \A c \in Command : \A i \in printed[c] :
        IF call[c].op = "delete" THEN store[i] = Gone ELSE store[i] # Nothing

(* Why these two hold.  A request is under way only while its command waits  *)
(* for it or has ended; a new thing is named after the argument it is for.   *)
UnderWay(c) == request[c].state \in {"sent", "received"}
RequestOK(c) ==
    /\ UnderWay(c) => pc[c] = "wait" /\ status[c] # "ok"
    /\ UnderWay(c) /\ request[c].method = "create" => store[request[c].id] = Nothing
    /\ pc[c] = "wait" => /\ request[c].state # "none" /\ request[c].method = Method(c)
                         /\ request[c].method = "create" => request[c].id = NewId(c)
    /\ request[c].method = "create" \/ request[c].id \in DOMAIN Initial
    /\ request[c].method = "delete" => request[c].endpoint = "file"
    /\ request[c].state = "ok" =>
          IF request[c].method = "delete" THEN store[request[c].id] = Gone
          ELSE store[request[c].id] # Nothing

(* What has been made is for arguments up to this one, and for this one only *)
(* while its request is waited for.                                          *)
ResultOK(c) ==
    /\ \A i \in Made(c) : i[2] <= at[c]
    /\ NewId(c) \in Made(c) => pc[c] = "wait"
    /\ Made(c) \subseteq results[c] \cup {NewId(c)}
    /\ status[c] = "ok" => Made(c) \subseteq results[c]
    /\ call[c].op \notin {"upload", "files"} => Made(c) = {}
    /\ printed[c] \subseteq results[c]
    /\ status[c] \in {"ok", "failed"} => printed[c] = results[c]
    /\ call[c].op \in {"init", "install"} => results[c] = {}
    /\ \A i \in results[c] :
          IF call[c].op = "delete" THEN store[i] = Gone ELSE store[i] # Nothing

ReportInv == TypeOK /\ \A c \in Command : RequestOK(c) /\ ResultOK(c)

(* A file that changes between its hashing and its transfer is not stored as *)
(* a mixture: what is stored is what the file was when it was hashed.        *)
NoMixture == \A i \in Id : store[i].body # Mixed

(* A page stays a page and a file a file; only files are deleted, for good.  *)
KindsKept ==
    [][\A i \in Id : store[i] # Nothing /\ store'[i] # store[i]
                     => \/ store'[i].kind = store[i].kind
                        \/ (store[i].kind = "file" /\ store'[i] = Gone)]_vars

(* What is not HTML becomes a page only if its name says HTML, if it is      *)
(* standard input, if the user gave the URL of a page, or if it was changed  *)
(* after it was looked at.  And HTML becomes a file only if it was asked for *)
(* as a file, or is named like one.                                          *)
Asked(c, k) == call[c].kind = k
KindByContent ==
    \A c \in Command :
        request[c].state # "none" /\ Method(c) # "delete" /\ edits = 0 =>
            /\ (request[c].endpoint = "page" /\ Kind[request[c].hash] = "text")
               => (Extension[Arg(c)] = "html" \/ Arg(c) = Stdin \/ Asked(c, "page"))
            /\ (request[c].endpoint = "file" /\ Kind[request[c].hash] = "html")
               => (Extension[Arg(c)] = "other" \/ Asked(c, "file"))

(* Why that holds.  A command that was told what to publish keeps to it.     *)
(* Another looks at its file before it reads it, and reads it before it      *)
(* sends it; what it then does is right for the file while nobody edits it.  *)
Told(c) == call[c].kind # "any"
ByContent(c) == kind[c] = (IF IsHostedFile(Arg(c)) THEN "file" ELSE "page")
KindOK(c) ==
    /\ call[c].op \in {"init", "install"} => request[c].state = "none"
    /\ call[c].op \in Reading /\ request[c].state # "none" =>
          request[c].endpoint = kind[c] /\ (Told(c) \/ pc[c] = "wait")
    /\ call[c].op \in Reading /\ Told(c) => kind[c] = call[c].kind /\ pc[c] # "classify"
    /\ call[c].op \in Reading /\ ~Told(c) =>
          /\ pc[c] = "classify" \/ (pc[c] = "load" /\ call[c].op = "update") \/ kind[c] # "any"
          /\ edits = 0 =>
                /\ kind[c] # "any" => ByContent(c)
                /\ pc[c] = "send" \/ (pc[c] = "load" /\ kind[c] = "page")
                   => body[c] = disk[Arg(c)]
                /\ request[c].state # "none" => request[c].hash = disk[Arg(c)]

CommandsInv == ReportInv /\ \A c \in Command : KindOK(c)

(* Every command ends, whether or not the server ever answers.               *)
EveryCommandEnds == \A c \in Command : <>(status[c] # "running")
=============================================================================
