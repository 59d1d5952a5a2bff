-------------------------------- MODULE Albums --------------------------------
(***************************************************************************)
(* Albums (routes/albums.py, utils/albums.py, database/albums.py).  The    *)
(* handlers are synchronous, so the server runs them in threads: every     *)
(* database call opens a connection of its own, and what one handler has   *)
(* read another may change before it writes.                               *)
(***************************************************************************)
EXTENDS People

CONSTANTS
    Clients,            \* requests that may be under way at once
    AlbumIds,           \* fresh uuids, naturals, drawn in order
    AlbumNames, Passwords,
    InitialAlbums       \* in each scope, the albums at the start

ASSUME AlbumsAssumption ==
    /\ AlbumIds \subseteq Nat \ {0} /\ IsFiniteSet(AlbumIds)
    /\ None \notin AlbumNames \cup Passwords

(* The columns of albums, and the photos linked to the album. *)
AlbumRow(photos) ==
    [name : AlbumNames, locked : BOOLEAN, secret : Passwords \cup {None}, photos : SUBSET photos]

ASSUME InitialAlbumsAssumption ==
    \A s \in Scopes : \A a, b \in DOMAIN InitialAlbums[s] :
        /\ a \in AlbumIds /\ InitialAlbums[s][a] \in AlbumRow(Photos)
        /\ InitialAlbums[s][a].name = InitialAlbums[s][b].name => a = b

VARIABLES
    albums,     \* the tables albums and album_images
    request     \* what each client has asked for, and how far it is

albumVars == <<albums, request>>

(* An omitted field is None.  The validators of schemas/album.py run on    *)
(* fields that are given: a lock with the password left out passes them.   *)
Album(name, locked, secret, photos) ==
    [name |-> name, locked |-> locked, secret |-> secret, photos |-> photos]

NoRequest == [kind |-> "none", pc |-> "idle", id |-> 0, name |-> None, lock |-> FALSE,
              password |-> None, current |-> None, photos |-> {}, row |-> None, reply |-> "none"]

InAnAlbum(p) == \E a \in DOMAIN albums : p \in albums[a].photos
Taken(name)  == \E a \in DOMAIN albums : albums[a].name = name
WithAlbum(id, row) == [a \in DOMAIN albums \cup {id} |-> IF a = id THEN row ELSE albums[a]]
Fresh        == AlbumIds \ (DOMAIN albums \cup {request[c].id : c \in Clients})

AlbumsInit ==
    /\ albums = InitialAlbums[scope]
    /\ request = [c \in Clients |-> NoRequest]

Asks(c, r) == request[c].pc = "idle" /\ request' = [request EXCEPT ![c] = r]
On(c, kind, pc) == request[c].kind = kind /\ request[c].pc = pc
Moves(c, pc) == request' = [request EXCEPT ![c].pc = pc]
Answers(c, reply) == request' = [request EXCEPT ![c].pc = "idle", ![c].reply = reply]

---------------------------------------------------------------------------
(* Creating.                                                               *)

AskCreate(c) ==
    /\ Happens
    /\ \E name \in AlbumNames, lock \in BOOLEAN, password \in Passwords \cup {None} :
          /\ Asks(c, [NoRequest EXCEPT !.kind = "create", !.pc = "check name", !.name = name,
                                       !.lock = lock, !.password = password])
    /\ UNCHANGED albums

(* album_util_create_from_memory begins with the memory and its images. *)
AskFromMemory(c, photos) ==
    /\ Happens
    /\ \E name \in AlbumNames :
          Asks(c, [NoRequest EXCEPT !.kind = "from memory", !.name = name, !.photos = photos,
                        !.pc = IF photos = {} THEN "idle" ELSE "check name",
                        !.reply = IF photos = {} THEN "400" ELSE "none"])
    /\ UNCHANGED albums

CheckName(c) ==
    /\ request[c].pc = "check name"
    /\ IF Taken(request[c].name) THEN Answers(c, "409")
       ELSE /\ Fresh # {}
            /\ request' = [request EXCEPT ![c].pc = "insert", ![c].id = CHOOSE id \in Fresh : TRUE]
    /\ UNCHANGED albums

(* The name is UNIQUE, whatever the check said. *)
InsertAlbum(c) ==
    /\ On(c, "create", "insert")
    /\ LET r == request[c]
       IN  IF Taken(r.name) THEN Answers(c, "500") /\ UNCHANGED albums
           ELSE /\ albums' = WithAlbum(r.id, Album(r.name, r.lock, r.password, {}))
                /\ Answers(c, "200")

(* Mutant: the links are a transaction of their own. *)
InsertAlbumThenImages(c) ==
    /\ On(c, "from memory", "insert")
    /\ LET r == request[c]
       IN  IF Taken(r.name) THEN Moves(c, "recheck name") /\ UNCHANGED albums
           ELSE /\ albums' = WithAlbum(r.id, Album(r.name, FALSE, None,
                                          IF r.photos \subseteq alive THEN r.photos ELSE {}))
                /\ Answers(c, "200")

(* db_create_album_with_images: the album and its links in one             *)
(* transaction, which a name or a photo gone meanwhile undoes.             *)
InsertAlbumWithImages(c) ==
    /\ On(c, "from memory", "insert")
    /\ LET r == request[c]
       IN  IF Taken(r.name) \/ ~(r.photos \subseteq alive)
           THEN Moves(c, "recheck name") /\ UNCHANGED albums
           ELSE /\ albums' = WithAlbum(r.id, Album(r.name, FALSE, None, r.photos))
                /\ Answers(c, "200")

(* The same error covers both, so the name is looked up again. *)
RecheckName(c) ==
    /\ On(c, "from memory", "recheck name")
    /\ Answers(c, IF Taken(request[c].name) THEN "409" ELSE "500")
    /\ UNCHANGED albums

---------------------------------------------------------------------------
(* What is done to an album there is.  Every handler reads its row first.  *)

AskUpdate(c) ==
    /\ Happens
    /\ \E a \in DOMAIN albums, name \in AlbumNames, lock \in BOOLEAN,
          password, current \in Passwords \cup {None} :
          Asks(c, [NoRequest EXCEPT !.kind = "update", !.pc = "read album", !.id = a, !.name = name,
                       !.lock = lock, !.password = password, !.current = current])
    /\ UNCHANGED albums

AskOpen(c) ==
    /\ Happens
    /\ \E a \in DOMAIN albums, current \in Passwords \cup {None} :
          Asks(c, [NoRequest EXCEPT !.kind = "open", !.pc = "read album", !.id = a, !.current = current])
    /\ UNCHANGED albums

AskOther(c) ==
    /\ Happens
    /\ \E a \in DOMAIN albums, kind \in {"delete", "add", "remove"}, photos \in SUBSET Photos :
          /\ photos = {} <=> kind = "delete"
          /\ Cardinality(photos) <= 2
          /\ Asks(c, [NoRequest EXCEPT !.kind = kind, !.pc = "read album", !.id = a, !.photos = photos])
    /\ UNCHANGED albums

(* Mutant: the password is asked for when the album is to be locked. *)
ReadAlbumForNewLock(c) ==
    LET r == request[c]
    IN  /\ r.pc = "read album"
        /\ IF r.id \notin DOMAIN albums THEN Answers(c, "404")
           ELSE request' = [request EXCEPT ![c].row = albums[r.id],
                    ![c].pc = IF r.kind \in {"update", "open"} /\ r.lock THEN "verify" ELSE "write"]
        /\ UNCHANGED albums

(* Adding, removing and deleting take no password. *)
ReadAlbum(c) ==
    LET r == request[c]
    IN  /\ r.pc = "read album"
        /\ IF r.id \notin DOMAIN albums THEN Answers(c, "404")
           ELSE request' = [request EXCEPT ![c].row = albums[r.id],
                    ![c].pc = IF r.kind \in {"update", "open"} /\ albums[r.id].locked
                              THEN "verify" ELSE "write"]
        /\ UNCHANGED albums

(* verify_album_password reads the row again; an album without a hash is   *)
(* opened by nothing.                                                      *)
Verify(c) ==
    LET r == request[c]
    IN  /\ r.pc = "verify"
        /\ IF r.current # None /\ r.id \in DOMAIN albums /\ albums[r.id].secret = r.current
           THEN request' = [request EXCEPT ![c].pc = "write", ![c].row = albums[r.id]]
           ELSE Answers(c, "401")
        /\ UNCHANGED albums

(* db_update_album: without a new password the old hash stays; of a row    *)
(* that is gone nothing is written, and the answer is the same.            *)
Changed(r) ==
    [a \in DOMAIN albums |->
        IF a # r.id THEN albums[a]
        ELSE Album(r.name, r.lock, IF r.password = None THEN albums[a].secret ELSE r.password,
                   albums[a].photos)]

UpdateAlbum(c) ==
    LET r == request[c]
        others == {a \in DOMAIN albums : a # r.id /\ albums[a].name = r.name}
    IN  /\ On(c, "update", "write")
        /\ IF r.id \in DOMAIN albums /\ others # {} THEN Answers(c, "400") /\ UNCHANGED albums
           ELSE albums' = Changed(r) /\ Answers(c, "200")

OpenAlbum(c) ==
    LET r == request[c]
    IN  /\ On(c, "open", "write")
        /\ request' = [request EXCEPT ![c].pc = "idle", ![c].reply = "200",
                          ![c].photos = IF r.id \in DOMAIN albums THEN albums[r.id].photos ELSE {}]
        /\ UNCHANGED albums

DeleteAlbum(c) ==
    /\ On(c, "delete", "write")
    /\ albums' = [a \in DOMAIN albums \ {request[c].id} |-> albums[a]]
    /\ Answers(c, "200")

(* Mutant: the ids are taken as they come. *)
AddImagesUnchecked(c) ==
    LET r == request[c]
    IN  /\ On(c, "add", "write")
        /\ IF r.id \notin DOMAIN albums THEN Answers(c, "500") /\ UNCHANGED albums
           ELSE /\ albums' = [albums EXCEPT ![r.id].photos = @ \cup r.photos]
                /\ Answers(c, "200")

(* db_add_images_to_album keeps the ids that exist; an album that is gone  *)
(* breaks a foreign key.                                                   *)
AddImages(c) ==
    LET r == request[c]
    IN  /\ On(c, "add", "write")
        /\ IF r.photos \cap alive = {} \/ r.id \notin DOMAIN albums
           THEN Answers(c, "500") /\ UNCHANGED albums
           ELSE /\ albums' = [albums EXCEPT ![r.id].photos = @ \cup (r.photos \cap alive)]
                /\ Answers(c, "200")

(* One photo that is not there is an error, several are not. *)
RemovesNothing(r) ==
    /\ Cardinality(r.photos) = 1
    /\ r.id \in DOMAIN albums => r.photos \cap albums[r.id].photos = {}

RemoveImages(c) ==
    LET r == request[c]
    IN  /\ On(c, "remove", "write")
        /\ Answers(c, IF RemovesNothing(r) THEN "500" ELSE "200")
        /\ albums' = [a \in DOMAIN albums |->
              IF a = r.id THEN [albums[a] EXCEPT !.photos = @ \ r.photos] ELSE albums[a]]

CascadeToAlbums(p) ==
    /\ albums' = [a \in DOMAIN albums |-> [albums[a] EXCEPT !.photos = @ \ {p}]]
    /\ UNCHANGED request

Ask(c) == AskCreate(c) \/ AskUpdate(c) \/ AskOpen(c) \/ AskOther(c)

Handle(c) ==
    \/ CheckName(c) \/ InsertAlbum(c) \/ InsertAlbumWithImages(c) \/ RecheckName(c)
    \/ ReadAlbum(c) \/ Verify(c) \/ UpdateAlbum(c) \/ OpenAlbum(c)
    \/ DeleteAlbum(c) \/ AddImages(c) \/ RemoveImages(c)

---------------------------------------------------------------------------
(* The tables keep their keys: names differ, and every photo of an album   *)
(* has a row.                                                              *)
AlbumsTypeOK ==
    /\ \A a \in DOMAIN albums : a \in AlbumIds /\ albums[a] \in AlbumRow(alive)
    /\ \A a, b \in DOMAIN albums : albums[a].name = albums[b].name => a = b

(* "A failed link never strands an empty album" (database/albums.py:211):  *)
(* a memory becomes an album with all the photos that were read from it,   *)
(* or leaves nothing behind, whatever is deleted or named meanwhile.       *)
NoStrandedAlbums ==
    [][\A c \in Clients : request[c].kind = "from memory" /\ request[c].pc = "insert" /\ request'[c] # request[c] =>
          LET new == DOMAIN albums' \ DOMAIN albums
          IN  IF request'[c].reply = "200" THEN new # {} /\ \A a \in new : albums'[a].photos = request[c].photos
              ELSE new = {}]_albumVars

(* The lock, name and password of a locked album change, and its photos    *)
(* are given out, only to somebody who knew the password, unless its row   *)
(* was another one when the request last read it.                          *)
LocksAreRespected ==
    [][\A c \in Clients : LET r == request[c] IN
          /\ r.kind \in {"update", "open"} /\ r.pc = "write" /\ request'[c].reply = "200"
          /\ r.id \in DOMAIN albums /\ r.row = albums[r.id] /\ r.row.locked
          => r.current # None /\ r.current = r.row.secret]_albumVars
=============================================================================
