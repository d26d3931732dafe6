----------------------------- MODULE NodeIdentity -----------------------------
(* Under which RID a node runs: _resolve_node_id of koi_node.py when the     *)
(* coordinator is constructed, and the migration from an id that was drawn   *)
(* at random to the one that is derived from the node's key.  Three files    *)
(* are written one after the other, and the process may die in between or in *)
(* the middle of one.  A start may find KOI_NODE_ID set, and the             *)
(* cryptography package installed or not, whatever was so at the last one.   *)
EXTENDS Integers

CONSTANT Drawn   \* what can be drawn at random

KeyId == <<"key", 0>>      \* the RID of the key in node_private_key.pem
EnvId == <<"env", 0>>      \* KOI_NODE_ID
NoId == <<"none", 0>>      \* an empty or a missing file
DrawnIds == {<<"drawn", d>> : d \in Drawn}
Ids == DrawnIds \cup {KeyId, EnvId}

VARIABLES
    phase,    \* where _resolve_node_id is, or "up", or "down"
    self,     \* node_id
    keyFile,  \* node_private_key.pem: "none", "torn" or "made"
    idFile,   \* .node_id
    backup,   \* .node_id.legacy
    peers,    \* the RIDs that coordinator_peers.json has for this node
    memory,   \* the same in known_peers and edges
    used,     \* history: the RIDs under which the node has run
    failed    \* history: the files that could not be written, or in part

files == <<keyFile, idFile, backup, peers>>
identityVars == <<phase, self, files, memory, used, failed>>

IdentityTypeOK ==
    /\ phase \in {"down", "key", "check", "backup", "peers", "persist", "up"}
    /\ self \in Ids \cup {NoId}
    /\ keyFile \in {"none", "torn", "made"}
    /\ idFile \in DrawnIds \cup {KeyId, NoId}
    /\ backup \in DrawnIds \cup {NoId}
    /\ peers \subseteq Ids /\ memory \subseteq Ids
    /\ used \subseteq Ids
    /\ failed \subseteq {"id", "drawn id", "backup", "peers"}

IdentityInit ==
    /\ phase = "down" /\ self = NoId
    /\ keyFile = "none" /\ idFile = NoId /\ backup = NoId /\ peers = {}
    /\ memory = {} /\ used = {} /\ failed = {}

\* The coordinator goes on, reads its peers, and runs.
Runs(id) ==
    /\ phase' = "up" /\ self' = id
    /\ memory' = peers /\ used' = used \cup {id}

-----------------------------------------------------------------------------
(* KOI_NODE_ID is set: no file is looked at.                                 *)
StartNamed ==
    /\ phase = "down"
    /\ Runs(EnvId)
    /\ UNCHANGED <<files, failed>>

(* _resolve_node_id_legacy without cryptography: the RID of the file, which  *)
(* may be that of a key, or one that is drawn.                               *)
StartWithFile ==
    /\ phase = "down" /\ idFile # NoId
    /\ Runs(idFile)
    /\ UNCHANGED <<files, failed>>

StartDrawing(id) ==
    /\ phase = "down" /\ idFile = NoId
    /\ phase' = "persist" /\ self' = id
    /\ UNCHANGED <<files, memory, used, failed>>

StartWithKey ==
    /\ phase = "down"
    /\ phase' = "key" /\ self' = KeyId
    /\ UNCHANGED <<files, memory, used, failed>>

(* generate_and_save_keypair: the key of the file, or a new one.  A file     *)
(* that does not parse is an exception that ends the process.                *)
LoadOrMakeKey ==
    /\ phase = "key" /\ keyFile # "torn"
    /\ keyFile' = "made"
    /\ phase' = "check"
    /\ UNCHANGED <<self, idFile, backup, peers, memory, used, failed>>

KeyUnreadable ==
    /\ phase = "key" /\ keyFile = "torn"
    /\ phase' = "down"
    /\ UNCHANGED <<self, files, memory, used, failed>>

(* Only another RID than that of the key is migrated from.                   *)
CheckOldId ==
    /\ phase = "check"
    /\ phase' = IF idFile \in {NoId, KeyId} THEN "persist" ELSE "backup"
    /\ UNCHANGED <<self, files, memory, used, failed>>

(* _migrate_node_identity: the two halves, each of which may fail by itself. *)
BackUpOldId ==
    /\ phase = "backup"
    /\ \/ backup' = idFile /\ UNCHANGED failed
       \/ failed' = failed \cup {"backup"} /\ UNCHANGED backup
    /\ phase' = "peers"
    /\ UNCHANGED <<self, keyFile, idFile, peers, memory, used>>

Renamed == IF idFile \in peers THEN (peers \ {idFile}) \cup {KeyId} ELSE peers

RenameInPeers ==
    /\ phase = "peers"
    /\ \/ peers' = Renamed /\ UNCHANGED failed
       \/ failed' = failed \cup {"peers"} /\ UNCHANGED peers
    /\ phase' = "persist"
    /\ UNCHANGED <<self, keyFile, idFile, backup, memory, used>>

(* id_file.write_text at the end of both resolutions.  An exception is       *)
(* logged, and the node runs under an RID that it will not remember.         *)
PersistId ==
    /\ phase = "persist"
    /\ \/ idFile' = self /\ UNCHANGED failed
       \/ failed' = failed \cup (IF self = KeyId THEN {"id"} ELSE {"id", "drawn id"})
          /\ UNCHANGED idFile
    /\ Runs(self)
    /\ UNCHANGED <<keyFile, backup, peers>>

-----------------------------------------------------------------------------
(* The coordinator proposes an edge, of which it is the source, and saves.   *)
(* A save that fails leaves the file as it is.                               *)
SavePeers ==
    /\ phase = "up"
    /\ memory' = memory \cup {self}
    /\ peers' \in {peers, memory'}
    /\ UNCHANGED <<phase, self, keyFile, idFile, backup, used, failed>>

(* The process ends, perhaps in the middle of writing a file.  That of the   *)
(* peers is replaced as a whole.                                             *)
Ends ==
    /\ phase # "down"
    /\ phase' = "down" /\ memory' = {}
    /\ keyFile' \in IF phase = "key" /\ keyFile = "none" THEN {"none", "torn"} ELSE {keyFile}
    /\ backup' \in IF phase = "backup" THEN {backup, NoId} ELSE {backup}
    /\ \/ UNCHANGED <<idFile, failed>>
       \/ phase = "persist" /\ idFile' = NoId /\ failed' = failed \cup {"id"}
    /\ UNCHANGED <<self, peers, used>>

(* The operator of a node that cannot start takes the torn key away.         *)
RemoveTornKey ==
    /\ keyFile = "torn" /\ keyFile' = "none"
    /\ UNCHANGED <<phase, self, idFile, backup, peers, memory, used, failed>>

IdentityNext ==
    \/ StartNamed \/ StartWithFile \/ (\E id \in DrawnIds : StartDrawing(id))
    \/ StartWithKey \/ LoadOrMakeKey \/ KeyUnreadable \/ CheckOldId
    \/ BackUpOldId \/ RenameInPeers \/ PersistId
    \/ SavePeers \/ Ends \/ RemoveTornKey

IdentitySpec == IdentityInit /\ [][IdentityNext]_identityVars

-----------------------------------------------------------------------------
(* A node that runs under the RID of its key has no other name in its file   *)
(* of peers, wherever a migration was cut short and however often it was     *)
(* begun: unless the rewriting failed, a drawn RID could not be persisted,   *)
(* or the node has run under KOI_NODE_ID.                                    *)
(* (koi_node.py, _migrate_node_identity before the write of .node_id)        *)
NamedByKey ==
    phase = "up" /\ self = KeyId =>
        \/ peers \cup memory \subseteq {KeyId}
        \/ failed \cap {"peers", "drawn id"} # {} \/ EnvId \in used

(* Once the node has run under the RID of its key it does not go back to a   *)
(* drawn one, not even without cryptography, unless .node_id could not be    *)
(* written.  (koi_node.py, _resolve_node_id_legacy)                          *)
KeyIdStays ==
    phase = "up" /\ KeyId \in used => self \in {KeyId, EnvId} \/ "id" \in failed

(* No drawn RID under which the node has run is forgotten: peers that still  *)
(* use it can be told from its files.  (koi_node.py, .node_id.legacy)        *)
OldIdIsKept ==
    used \cap DrawnIds \subseteq {idFile, backup} \/ failed \cap {"id", "backup"} # {}

-----------------------------------------------------------------------------
(* The inductive invariant: the properties, and what they rest on.           *)

\* Where the resolution has got to says what it has found.
ResolvedSoFar ==
    /\ phase \in {"key", "check", "backup", "peers"} => self = KeyId
    /\ phase \in {"backup", "peers"} => idFile \in DrawnIds
    /\ phase = "persist" => self = KeyId \/ (self \in DrawnIds /\ idFile = NoId)
    /\ phase = "up" => self \in used

\* The file of peers has no other name than that of .node_id, to be rewritten by
\* the next migration; and none but that of the key once it was rewritten.
NamesAreKnown ==
    failed \cap {"peers", "drawn id"} = {} /\ EnvId \notin used =>
        /\ peers \subseteq {idFile, KeyId}
        /\ phase = "persist" /\ self = KeyId => peers \subseteq {KeyId}
        /\ phase = "up" /\ self = KeyId => peers \cup memory \subseteq {KeyId}
        /\ phase = "up" /\ self # KeyId => idFile = self /\ memory \subseteq {self, KeyId}

\* .node_id has the RID of the key from the time the node runs under it.
KeyIdIsPersisted ==
    KeyId \in used /\ "id" \notin failed =>
        /\ idFile = KeyId
        /\ phase = "up" => self \in {KeyId, EnvId}

\* A drawn RID is in .node_id until that of the key replaces it, and is backed
\* up before.
DrawnIsKept ==
    failed \cap {"id", "backup"} = {} =>
        /\ used \cap DrawnIds \subseteq IF idFile = KeyId THEN {backup} ELSE {idFile}
        /\ phase \in {"peers", "persist"} /\ self = KeyId /\ idFile \in DrawnIds =>
              backup = idFile

IInv ==
    /\ IdentityTypeOK
    /\ ResolvedSoFar
    /\ NamesAreKnown
    /\ KeyIdIsPersisted
    /\ DrawnIsKept

=============================================================================
