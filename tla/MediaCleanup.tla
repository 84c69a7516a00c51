---------------------------- MODULE MediaCleanup ----------------------------
(***************************************************************************)
(* The command cleanup_media (users/media_cleanup.py): it reads which      *)
(* image files the rows name, walks through the files and removes the old  *)
(* ones that no row names.                                                 *)
(*                                                                         *)
(* Nothing ties the steps together.  The command asks for the writers to   *)
(* be stopped but cannot check it; here they may go on, and `quiet' says   *)
(* whether they did.                                                       *)
(***************************************************************************)
EXTENDS Integers

CONSTANTS
    UserRows, AdRows,   \* rows of users_user and ads_ad, each with an image field
    Names,              \* names of files under users/ and ads/
    KeyOf,              \* name -> _reference_key: one key for the spellings of a name
    NoImage, Outside,   \* a row without an image; one that names a path outside
    Uploads,            \* requests that may be storing an image at the same time
    MinimumAge,         \* ticks of MINIMUM_AGE_HOURS
    Ages,               \* values given to --older-than-hours
    MaxTime             \* bound: the last tick

ASSUME MediaAssumption ==
    /\ KeyOf \in [Names -> Names]
    /\ NoImage \notin Names /\ Outside \notin Names
    /\ MinimumAge \in Nat \ {0, 1}
    /\ Ages \subseteq Nat
    /\ MaxTime \in Nat /\ MinimumAge <= MaxTime

VARIABLES
    files,      \* name -> what the disk holds under it
    image,      \* row -> the name in its image field
    upload,     \* request -> the image it has stored and not yet committed
    job,        \* the command
    time

mediaVars == <<files, image, upload, job, time>>

----------------------------------------------------------------------------
Rows == UserRows \cup AdRows

\* changed: the later of mtime and ctime.  "other" is whatever the command never
\* removes: no supported suffix, hidden, hard links, too large, not decodable.
File(kind, changed) == [kind |-> kind, changed |-> changed]
NoFile == File("none", 0)

NoUpload == [row |-> NoImage, name |-> NoImage, at |-> 0]

\* used: keys read so far; todo: names still to visit; seen: the first stat of name.
\* History: due, what the run had to find; quiet, nobody else has written since it
\* began; repointed, a row has been given a file that was on the disk already.
NoJob ==
    [ pc |-> "idle", delete |-> FALSE, cutoff |-> 0, used |-> {}, todo |-> {},
      name |-> NoImage, seen |-> NoFile, candidates |-> {}, deleted |-> {},
      due |-> {}, quiet |-> TRUE, repointed |-> FALSE ]

Named(rows) == {image[r] : r \in rows} \cap Names

\* Regular image files whose last change is not later than the cutoff and whose
\* name, in any spelling, no row has.
Orphans(cutoff) ==
    {f \in Names : /\ files[f].kind = "image" /\ files[f].changed <= cutoff
                   /\ \A n \in Named(Rows) : KeyOf[n] # KeyOf[f]}

MediaInit ==
    /\ files \in [Names -> {NoFile, File("image", 0), File("image", MinimumAge), File("link", 0)}]
    /\ image \in [Rows -> Names \cup {NoImage, Outside}]
    /\ upload = [u \in Uploads |-> NoUpload]
    /\ job = NoJob
    /\ time = MinimumAge

(***************************************************************************)
(* cleanup_media.                                                          *)
(***************************************************************************)
\* Mutant of OldEnough: the age asked for is not held against the minimum.
AnyAge(older) == older \in Nat

OldEnough(older) == older >= MinimumAge

Begin ==
    /\ job.pc = "idle"
    /\ \E delete, acknowledged \in BOOLEAN, older \in Ages :
           /\ OldEnough(older)
           /\ delete => acknowledged
           /\ job' = [NoJob EXCEPT !.pc = "users", !.delete = delete, !.todo = Names,
                                   !.cutoff = time - older, !.due = Orphans(time - older)]
    /\ UNCHANGED <<files, image, upload, time>>

ReferenceKeys(names) == {KeyOf[n] : n \in names}

\* Mutant of Read: a path through a link is taken for a name like others.
ReadThroughLinks(rows, next) ==
    /\ job' = IF \E r \in rows : image[r] = Outside
              THEN [job EXCEPT !.pc = "aborted"]
              ELSE [job EXCEPT !.pc = next, !.used = @ \cup ReferenceKeys(Named(rows))]
    /\ UNCHANGED <<files, image, upload, time>>

\* _used_images of one model; a path outside or through a link ends the command.
Read(rows, next) ==
    /\ job' = IF (\E r \in rows : image[r] = Outside) \/ (\E n \in Named(rows) : files[n].kind = "link")
              THEN [job EXCEPT !.pc = "aborted"]
              ELSE [job EXCEPT !.pc = next, !.used = @ \cup ReferenceKeys(Named(rows))]
    /\ UNCHANGED <<files, image, upload, time>>

ReadUsers == job.pc = "users" /\ Read(UserRows, "ads")
ReadAds == job.pc = "ads" /\ Read(AdRows, "walk")

Skip == job' = [job EXCEPT !.pc = "walk", !.name = NoImage, !.seen = NoFile]

\* The next name, in an order left open, and the first stat of its file.
Look ==
    /\ job.pc = "walk"
    /\ \E f \in job.todo :
           LET examined == /\ KeyOf[f] \notin job.used
                           /\ files[f].kind = "image" /\ files[f].changed <= job.cutoff
           IN  job' = IF examined
                      THEN [job EXCEPT !.pc = "verify", !.name = f, !.seen = files[f], !.todo = @ \ {f}]
                      ELSE [job EXCEPT !.todo = @ \ {f}]
    /\ UNCHANGED <<files, image, upload, time>>

Same == files[job.name] = job.seen

\* _verified_image: what is opened and decoded is what was looked at.
Verify ==
    /\ job.pc = "verify"
    /\ IF Same THEN job' = [job EXCEPT !.pc = "recheck"] ELSE Skip
    /\ UNCHANGED <<files, image, upload, time>>

Recheck ==
    /\ job.pc = "recheck"
    /\ IF Same
       THEN job' = [job EXCEPT !.pc = IF job.delete THEN "unlink" ELSE "walk",
                               !.candidates = @ \cup {job.name}]
       ELSE Skip
    /\ UNCHANGED <<files, image, upload, time>>

Unlink ==
    /\ job.pc = "unlink"
    /\ files' = [files EXCEPT ![job.name] = NoFile]
    /\ job' = [job EXCEPT !.pc = "walk", !.deleted = @ \cup {job.name}, !.name = NoImage, !.seen = NoFile]
    /\ UNCHANGED <<image, upload, time>>

Finish ==
    /\ job.pc = "walk" /\ job.todo = {}
    /\ job' = [job EXCEPT !.pc = "done"]
    /\ UNCHANGED <<files, image, upload, time>>

\* The process ends or is stopped; what it has removed stays removed.
Leave ==
    /\ job.pc # "idle"
    /\ job' = NoJob
    /\ UNCHANGED <<files, image, upload, time>>

(***************************************************************************)
(* The site.  FileSystemStorage writes the file under a free name while    *)
(* the row is being saved; the row names it when the request commits.      *)
(***************************************************************************)
Disturb == job' = [job EXCEPT !.quiet = FALSE]

Store(u) ==
    /\ upload[u] = NoUpload
    /\ \E r \in Rows, f \in Names :
           /\ files[f].kind = "none"
           /\ files' = [files EXCEPT ![f] = File("image", time)]
           /\ upload' = [upload EXCEPT ![u] = [row |-> r, name |-> f, at |-> time]]
    /\ Disturb
    /\ UNCHANGED <<image, time>>

Commit(u) ==
    /\ upload[u] # NoUpload
    /\ image' = [image EXCEPT ![upload[u].row] = upload[u].name]
    /\ upload' = [upload EXCEPT ![u] = NoUpload]
    /\ Disturb
    /\ UNCHANGED <<files, time>>

\* The request fails or its worker dies: the file stays without a row.
RollBack(u) ==
    /\ upload[u] # NoUpload
    /\ upload' = [upload EXCEPT ![u] = NoUpload]
    /\ Disturb
    /\ UNCHANGED <<files, image, time>>

\* An image is cleared, or its row deleted; the file stays.
Clear(r) ==
    /\ image' = [image EXCEPT ![r] = NoImage]
    /\ Disturb
    /\ UNCHANGED <<files, upload, time>>

\* From outside the site (a shell, a restored backup): a file is written anew, or a
\* row is given a file that exists.
Overwrite(f) ==
    /\ files[f].kind = "image"
    /\ files' = [files EXCEPT ![f].changed = time]
    /\ Disturb
    /\ UNCHANGED <<image, upload, time>>

Repoint(r, f) ==
    /\ files[f].kind = "image"
    /\ image' = [image EXCEPT ![r] = f]
    /\ job' = [job EXCEPT !.quiet = FALSE, !.repointed = TRUE]
    /\ UNCHANGED <<files, upload, time>>

\* A tick is MINIMUM_AGE_HOURS / MinimumAge; a worker is killed long before two pass.
Tick ==
    /\ time < MaxTime
    /\ \A u \in Uploads : upload[u] # NoUpload => upload[u].at = time
    /\ time' = time + 1
    /\ UNCHANGED <<files, image, upload, job>>

MediaNext ==
    \/ Begin \/ ReadUsers \/ ReadAds \/ Look \/ Verify \/ Recheck \/ Unlink \/ Finish \/ Leave
    \/ \E u \in Uploads : Store(u) \/ Commit(u) \/ RollBack(u)
    \/ \E r \in Rows : Clear(r)
    \/ \E f \in Names : Overwrite(f) \/ \E r \in Rows : Repoint(r, f)
    \/ Tick

MediaSpec == MediaInit /\ [][MediaNext]_mediaVars

----------------------------------------------------------------------------
(* Properties.                                                             *)

FileState == [kind : {"none", "image", "link", "other"}, changed : 0..MaxTime]

JobType ==
    [ pc : {"idle", "users", "ads", "walk", "verify", "recheck", "unlink", "done", "aborted"},
      delete : BOOLEAN, cutoff : Int, used : SUBSET Names, todo : SUBSET Names,
      name : Names \cup {NoImage}, seen : FileState,
      candidates : SUBSET Names, deleted : SUBSET Names,
      due : SUBSET Names, quiet : BOOLEAN, repointed : BOOLEAN ]

\* The variables keep their types, and only a command that deletes reaches its unlink.
MediaTypeOK ==
    /\ files \in [Names -> FileState]
    /\ image \in [Rows -> Names \cup {NoImage, Outside}]
    /\ upload \in [Uploads -> {NoUpload} \cup [row : Rows, name : Names, at : 0..MaxTime]]
    /\ job \in JobType
    /\ job.pc \in {"verify", "recheck", "unlink"} => job.name \in Names
    /\ job.pc = "unlink" => job.delete
    /\ time \in 0..MaxTime

Wanted(f) == (\E r \in Rows : image[r] = f) \/ (\E u \in Uploads : upload[u].name = f)

\* The age limit alone protects the images of a site that goes on working: no file
\* is removed that a row names or a request has stored and is about to name.  What
\* the writers must be stopped for is a row that is given a file of old.
UsedImagesSurvive ==
    [][files' # files => \A f \in Names : files[f].kind # "none" /\ files'[f].kind = "none" =>
           ~ Wanted(f) \/ job.repointed]_mediaVars

\* These rows name nothing outside and no link.
Plain(rows) ==
    \A r \in rows : image[r] # Outside /\ (image[r] \in Names => files[image[r]].kind # "link")

\* With the writers stopped a run reports the old images no row names, all of them
\* and no other, and removes exactly those if it was asked to; and while a row of
\* either table names what the command does not understand, no run comes to an
\* unlink or to its end.
OrphansAreFound ==
    /\ job.pc = "done" /\ job.quiet =>
           /\ job.candidates = job.due
           /\ job.deleted = IF job.delete THEN job.due ELSE {}
           /\ \A f \in job.deleted : files[f] = NoFile
    /\ job.pc \in {"unlink", "done"} /\ job.quiet => Plain(Rows)
    /\ job.pc = "aborted" => job.deleted = {}

(***************************************************************************)
(* Why they hold.                                                          *)
(***************************************************************************)
\* The file of a request that has not committed is as young as the request.
UploadsAreFresh ==
    \A u \in Uploads : upload[u] # NoUpload =>
        /\ files[upload[u].name].kind = "image" /\ upload[u].at <= files[upload[u].name].changed
        /\ upload[u].at <= time /\ time <= upload[u].at + 1

HasRead ==
    CASE job.pc \in {"idle", "users", "aborted"} -> {}
      [] job.pc = "ads" -> UserRows
      [] OTHER -> Rows

Recent(f) == files[f].kind = "image" /\ job.cutoff < files[f].changed

\* What a row names that the command has read is known to it or too young for it;
\* the file it is about to remove is nobody's.
ReadRowsAreKnown ==
    /\ job.pc # "idle" => job.cutoff + MinimumAge <= time
    /\ \A r \in HasRead : image[r] \in Names =>
           KeyOf[image[r]] \in job.used \/ Recent(image[r]) \/ job.repointed
    /\ job.pc \in {"verify", "recheck", "unlink"} =>
           /\ files[job.name].kind = "image"
           /\ \A u \in Uploads : upload[u].name # job.name
           /\ \A r \in Rows : image[r] = job.name => job.repointed

\* The file the command has in its hands.
InHand(pcs) == IF job.pc \in pcs THEN {job.name} ELSE {}

\* With nobody else writing, what the run had to find is what it has removed and
\* what is still an orphan; every one is a candidate, in hand or still to visit.
QuietRunIsExact ==
    /\ job.pc \in {"users", "ads", "aborted"} => job.deleted = {}
    /\ job.quiet /\ job.pc \notin {"idle", "aborted"} =>
           /\ job.due = job.deleted \cup Orphans(job.cutoff)
           /\ job.used = ReferenceKeys(Named(HasRead))
           /\ job.pc \in {"users", "ads"} => job.todo = Names /\ job.candidates = {}
           /\ job.pc = "done" => job.todo = {}
           /\ job.candidates \subseteq job.due \ job.todo
           /\ job.due \subseteq job.candidates \cup job.todo \cup InHand({"verify", "recheck"})
           /\ InHand({"verify", "recheck", "unlink"}) \subseteq Orphans(job.cutoff) \ job.todo
           /\ job.pc \in {"verify", "recheck"} => files[job.name] = job.seen /\ job.name \notin job.candidates
           /\ job.pc = "unlink" => job.name \in job.candidates
           /\ job.deleted = IF job.delete THEN job.candidates \ InHand({"unlink"}) ELSE {}
           /\ \A f \in job.deleted : files[f] = NoFile

ReadRowsArePlain == job.quiet => Plain(HasRead)

MediaInductive == MediaTypeOK /\ UploadsAreFresh /\ ReadRowsAreKnown /\ ReadRowsArePlain /\ QuietRunIsExact
=============================================================================
