------------------------------ MODULE Creatives ------------------------------
(***************************************************************************)
(* The banners of a campaign: creative.service.ts and its routes over the  *)
(* object storage of lib/storage.ts. A banner is a row of the database and *)
(* a file of the storage, and no transaction spans the two: every request  *)
(* is a sequence of steps, any of which may be its last.                   *)
(***************************************************************************)
EXTENDS Naturals, Sequences, FiniteSets

CONSTANTS
    Request,    \* requests that may overlap
    Key,        \* the random names put draws: each is drawn once
    Brand,
    Owner,      \* the brand that owns the campaign
    Faults,     \* subset of {"database", "storage", "crash"}: what may fail
    NULL

SniffedImage == {"png", "jpeg", "gif", "webp"}

\* A row, as far as it is told apart: its url.
Asset == [name : Key, extension : SniffedImage]

CreativesAssumption ==
    /\ Owner \in Brand
    /\ IsFiniteSet(Key)
    /\ NULL \notin Key \cup Brand \cup Asset \cup SniffedImage \cup {"part"}

VARIABLES
    approved,   \* the brand approves the affiliate, relationships' business
    asset,      \* per key: the row that has it as its url, NULL for none
    file,       \* per key: what the bytes on the disk are, NULL for no file
    lost,       \* keys whose file no code will look at again
    served,     \* what a download answered: the type it claims and the bytes
    call        \* per request: its step, the key it works on, what it read

vars == <<approved, asset, file, lost, served, call>>

-----------------------------------------------------------------------------
Idle == [pc |-> "idle", key |-> NULL, bytes |-> NULL]

\* An upload is told from the first bytes; svg and the rest are no images.
Bytes == SniffedImage \cup {"svg", "empty", "large"}

AsDeclared(bytes) == bytes
sniffImage(bytes) == IF bytes \in SniffedImage THEN bytes ELSE NULL

\* The key ends in the type that was sniffed, and mimeFor reads it back.
put(key, extension) == [name |-> key, extension |-> extension]
mimeFor(url) == url.extension

Init ==
    /\ approved \in BOOLEAN
    /\ asset = [k \in Key |-> NULL]
    /\ file = [k \in Key |-> NULL]
    /\ lost = {}
    /\ served = NULL
    /\ call = [r \in Request |-> Idle]

Begin(r, pc, k, bytes) ==
    /\ call[r] = Idle
    /\ call' = [call EXCEPT ![r] = [pc |-> pc, key |-> k, bytes |-> bytes]]

Goto(r, pc) == call' = [call EXCEPT ![r].pc = pc]
Finish(r) == call' = [call EXCEPT ![r] = Idle]

\* Rows and files in nobody's hands: no key was drawn twice.
Drawn(k) == asset[k] # NULL \/ file[k] # NULL \/ \E r \in Request : call[r].key = k

-----------------------------------------------------------------------------
\* upload: the owner, the size and the bytes are judged before anything is kept.
Upload(r) ==
    /\ \E brand \in Brand, bytes \in Bytes, k \in Key :
           /\ brand = Owner
           /\ bytes \notin {"empty", "large"}
           /\ sniffImage(bytes) # NULL
           /\ ~Drawn(k)
           /\ Begin(r, "put", k, bytes)
    /\ UNCHANGED <<approved, asset, file, lost, served>>

Put(r) ==
    /\ call[r].pc = "put"
    /\ file' = [file EXCEPT ![call[r].key] = call[r].bytes]
    /\ Goto(r, "create")
    /\ UNCHANGED <<approved, asset, lost, served>>

\* writeFile stops part way, by an error or with the process: what it wrote
\* stays.
PutFails(r) ==
    /\ Faults \cap {"storage", "crash"} # {}
    /\ call[r].pc = "put"
    /\ file' = [file EXCEPT ![call[r].key] = "part"]
    /\ lost' = lost \cup {call[r].key}
    /\ Finish(r)
    /\ UNCHANGED <<approved, asset, served>>

Create(r) ==
    /\ call[r].pc = "create"
    /\ asset' = [asset EXCEPT ![call[r].key] =
                     put(call[r].key, sniffImage(call[r].bytes))]
    /\ Finish(r)
    /\ UNCHANGED <<approved, file, lost, served>>

\* Nothing removes the file of a row that could not be written.
CreateFails(r) ==
    /\ "database" \in Faults
    /\ call[r].pc = "create"
    /\ lost' = lost \cup {call[r].key}
    /\ Finish(r)
    /\ UNCHANGED <<approved, asset, file, served>>

-----------------------------------------------------------------------------
\* The two halves of a removal, and the order of them.
FileFirst == <<"erase", "delete">>
Removal == <<"delete", "erase">>

Advance(r) ==
    IF call[r].pc = Removal[1] THEN Goto(r, Removal[2]) ELSE Finish(r)

\* remove: the row is read, its campaign's owner checked ...
Remove(r) ==
    /\ \E brand \in Brand, k \in Key :
           /\ asset[k] # NULL
           /\ brand = Owner
           /\ Begin(r, Removal[1], k, NULL)
    /\ UNCHANGED <<approved, asset, file, lost, served>>

\* ... the row is deleted, which throws for the second of two removals ...
DeleteRow(r) ==
    /\ call[r].pc = "delete"
    /\ asset' = [asset EXCEPT ![call[r].key] = NULL]
    /\ IF asset[call[r].key] = NULL THEN Finish(r) ELSE Advance(r)
    /\ UNCHANGED <<approved, file, lost, served>>

DeleteFails(r) ==
    /\ "database" \in Faults
    /\ call[r].pc = "delete"
    /\ Finish(r)
    /\ UNCHANGED <<approved, asset, file, lost, served>>

\* ... and then the file. That it fails is swallowed.
DeleteFile(r) ==
    /\ call[r].pc = "erase"
    /\ file' = [file EXCEPT ![call[r].key] = NULL]
    /\ Advance(r)
    /\ UNCHANGED <<approved, asset, lost, served>>

DeleteFileFails(r) ==
    /\ "storage" \in Faults
    /\ call[r].pc = "erase"
    /\ lost' = lost \cup {call[r].key}
    /\ Finish(r)
    /\ UNCHANGED <<approved, asset, file, served>>

-----------------------------------------------------------------------------
\* download: the row is read and the caller's right to it checked, a brand's
\* by the campaign, an affiliate's by its approval; an admin may see all.
Download(r) ==
    /\ \E caller \in Brand \cup {"affiliate", "admin"}, k \in Key :
           /\ asset[k] # NULL
           /\ caller \in Brand => caller = Owner
           /\ caller = "affiliate" => approved
           /\ Begin(r, "get", k, asset[k])
    /\ UNCHANGED <<approved, asset, file, lost, served>>

\* A file removed in the meantime is an error, and serves nothing.
Get(r) ==
    /\ call[r].pc = "get"
    /\ served' = IF file[call[r].key] = NULL THEN served
                 ELSE [type |-> mimeFor(call[r].bytes),
                       bytes |-> file[call[r].key]]
    /\ Finish(r)
    /\ UNCHANGED <<approved, asset, file, lost>>

\* The process stops: a file between two of its steps belongs to nobody.
Crash ==
    /\ "crash" \in Faults
    /\ call # [r \in Request |-> Idle]
    /\ lost' = lost \cup {k \in Key : \E r \in Request :
                              call[r].key = k /\ call[r].pc \in {"create", "erase"}}
    /\ call' = [r \in Request |-> Idle]
    /\ UNCHANGED <<approved, asset, file, served>>

Reviewed ==
    /\ approved' = ~approved
    /\ UNCHANGED <<asset, file, lost, served, call>>

-----------------------------------------------------------------------------
Next ==
    \/ \E r \in Request :
           \/ Upload(r) \/ Put(r) \/ PutFails(r) \/ Create(r) \/ CreateFails(r)
           \/ Remove(r) \/ DeleteRow(r) \/ DeleteFails(r) \/ DeleteFile(r)
           \/ DeleteFileFails(r) \/ Download(r) \/ Get(r)
    \/ Crash \/ Reviewed

Spec == Init /\ [][Next]_vars

-----------------------------------------------------------------------------
\* Types, over the steps of creative.service.ts.
TypeOK ==
    /\ approved \in BOOLEAN
    /\ \A k \in Key : /\ asset[k] \in {NULL} \cup {put(k, t) : t \in SniffedImage}
                      /\ file[k] \in SniffedImage \cup {"part", NULL}
    /\ lost \subseteq Key
    /\ served \in [type : SniffedImage, bytes : SniffedImage] \cup {NULL}
    /\ \A r \in Request :
           call[r].pc \in {"idle", "put", "create", "delete", "erase", "get"}

\* Every row has its whole file, whatever fails and whoever overlaps: no
\* affiliate's site shows a broken image (creative.service.ts remove, upload).
\* And a file without a row is one that some request still has in its hands,
\* or one that a failure after the other half of the work left behind.
FilesAccountedFor ==
    \A k \in Key :
        /\ asset[k] # NULL => /\ file[k] = asset[k].extension
                              /\ k \notin lost
        /\ file[k] # NULL /\ asset[k] = NULL =>
               \/ k \in lost
               \/ \E r \in Request :
                      call[r].key = k /\ call[r].pc \in {"create", "erase"}

\* What a download claims to serve is what the bytes were found to be when
\* they were uploaded: never the uploader's name for them (mimeFor).
ServedAsSniffed == served # NULL => served.type = served.bytes

-----------------------------------------------------------------------------
\* What the proof of these two carries along: a key that is uploaded to is one
\* request's, and one that is erased has lost its row; what a download read is
\* the row of its file as long as there is a file.
Alone(r) == \A s \in Request \ {r} : call[s].key # call[r].key

Handled(r) ==
    LET k == call[r].key
        bytes == call[r].bytes IN
        /\ call[r].pc = "idle" => k = NULL
        /\ call[r].pc # "idle" => k \in Key
        /\ call[r].pc = "put" =>
               bytes \in SniffedImage /\ asset[k] = NULL /\ file[k] = NULL /\ Alone(r)
        /\ call[r].pc = "create" =>
               /\ bytes \in SniffedImage /\ asset[k] = NULL /\ file[k] = bytes
               /\ k \notin lost /\ Alone(r)
        /\ call[r].pc = "erase" =>
               /\ asset[k] = NULL /\ file[k] # NULL /\ k \notin lost
               /\ \A s \in Request \ {r} :
                      call[s].key = k => call[s].pc \in {"delete", "get"}
        /\ call[r].pc = "get" =>
               /\ bytes \in Asset
               /\ file[k] \in {bytes.extension, NULL}
               /\ asset[k] \in {bytes, NULL}

FilesInv ==
    /\ asset \in [Key -> Asset \cup {NULL}]
    /\ file \in [Key -> SniffedImage \cup {"part", NULL}]

CallsInv ==
    /\ call = [r \in Request |-> [pc |-> call[r].pc, key |-> call[r].key,
                                  bytes |-> call[r].bytes]]
    /\ \A r \in Request : call[r].pc \in {"idle", "put", "create", "delete",
                                          "erase", "get"}

LostInv == \A k \in lost : asset[k] = NULL /\ file[k] # NULL

BannerInv ==
    /\ FilesInv
    /\ CallsInv
    /\ \A r \in Request : Handled(r)
    /\ LostInv
    /\ FilesAccountedFor
    /\ ServedAsSniffed
=============================================================================
