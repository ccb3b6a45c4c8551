----------------------------- MODULE Storefront -----------------------------
(***************************************************************************)
(* An organizer's storefront: the row that its settings page, the merch        *)
(* editor within it and the profile page all write under one updated_at, and  *)
(* the uploaded images those drafts and the row refer to, which a cleanup      *)
(* removes.  A logo stands for all of the form; answers may be lost, and the   *)
(* calls of a page that was left still arrive.                                 *)
(***************************************************************************)
EXTENDS Common

CONSTANTS
    Editors,       \* tabs with the storefront settings
    Profiles,      \* tabs with the organizer profile
    MaxUploads,    \* images ever uploaded
    MediaLimit,    \* images an organizer may have (12)
    MerchLimit,    \* items of merch (3)
    MaxStamps,     \* values of updated_at
    MaxStoreCalls       \* calls at once, those of pages that were left included

ASSUME StorefrontAssumption ==
    LET images     == Nat \cup {None}
        rows       == [version : Nat, logo : images, merch : SUBSET Nat, public : BOOLEAN, claimed : BOOLEAN]
        identities == [version : Nat, logo : images, claimed : BOOLEAN] IN
    /\ {MaxUploads, MediaLimit, MerchLimit, MaxStamps, MaxStoreCalls} \subseteq Nat
    /\ Editors \cap Profiles = {} /\ None \notin Editors \cup Profiles \cup Nat
    /\ None \notin [saved : rows, logo : images, items : SUBSET Nat, review : rows \cup {None}]
    /\ None \notin [saved : identities, logo : images, file : BOOLEAN,
                   then : {"none", "leave", "save", "claim"}, conflict : BOOLEAN]

VARIABLES
    row,       \* public.organizers, updated_at as a counter
    media,     \* private.organizer_media
    uploads,   \* images uploaded so far
    shop,      \* the settings page of a tab
    profiles,   \* the profile page of a tab
    storeCalls      \* calls under way; by = None when their page was left

storeVars == <<row, media, uploads, shop, profiles, storeCalls>>

StoreInit ==
    /\ row \in [version : {1}, logo : {None}, merch : {{}}, public : {FALSE}, claimed : BOOLEAN]
    /\ media = {} /\ uploads = 0
    /\ shop = [e \in Editors |-> None] /\ profiles = [p \in Profiles |-> None]
    /\ storeCalls = {}

-----------------------------------------------------------------------------
(* Calls.  A page does nothing else while it waits for one, so it takes the    *)
(* answer in the step that gives it.                                           *)

Body(logo, items) == [logo |-> logo, items |-> items]
Nothing == Body(None, {})

Invoke(by, kind, body, base) == [by |-> by, kind |-> kind, body |-> body, base |-> base]

Of(t) == {c \in storeCalls : c.by = t}
BusyPage(t) == Of(t) # {}
Room == Cardinality(storeCalls) < MaxStoreCalls

\* The page is left: nobody waits for its calls.
Abandoned(t) == (storeCalls \ Of(t)) \cup {[c EXCEPT !.by = None] : c \in Of(t)}

-----------------------------------------------------------------------------
(* OrganizerStorefrontEditorPage and its StorefrontMerchEditor: a call of the  *)
(* one disables the other.                                                     *)

OpenShop(e) ==
    /\ shop[e] = None
    /\ shop' = [shop EXCEPT ![e] = [saved |-> row, logo |-> row.logo, items |-> row.merch, review |-> None]]
    /\ UNCHANGED <<row, media, uploads, profiles, storeCalls>>

LeaveShop(e) ==
    /\ shop[e] # None
    /\ shop' = [shop EXCEPT ![e] = None] /\ storeCalls' = Abandoned(e)
    /\ UNCHANGED <<row, media, uploads, profiles>>

DirtyForm(e)  == shop[e].logo # shop[e].saved.logo
DirtyMerch(e) == shop[e].items # shop[e].saved.merch
FreeShop(e)   == shop[e] # None /\ ~BusyPage(e)

PressShop(e, kind, body) ==
    /\ Room
    /\ storeCalls' = storeCalls \cup {Invoke(e, kind, body, shop[e].saved)}
    /\ UNCHANGED <<row, media, uploads, shop, profiles>>

SaveForm(e)  == FreeShop(e) /\ DirtyForm(e) /\ PressShop(e, "save", Body(shop[e].logo, {}))
SaveMerch(e) == FreeShop(e) /\ DirtyMerch(e) /\ PressShop(e, "merch", Body(None, shop[e].items))

PublishShop(e) ==
    /\ FreeShop(e) /\ ~DirtyForm(e) /\ ~DirtyMerch(e)
    /\ PressShop(e, IF shop[e].saved.public THEN "unpublish" ELSE "publish", Body(shop[e].logo, shop[e].items))

ClearUploads(e) == FreeShop(e) /\ ~DirtyForm(e) /\ ~DirtyMerch(e) /\ PressShop(e, "clear", Nothing)
UploadLogo(e)   == FreeShop(e) /\ uploads < MaxUploads /\ PressShop(e, "logo", Nothing)
AddItem(e) ==
    /\ FreeShop(e) /\ Cardinality(shop[e].items) < MerchLimit /\ uploads < MaxUploads
    /\ PressShop(e, "item", Nothing)

RemoveItem(e) ==
    /\ FreeShop(e)
    /\ \E image \in shop[e].items : shop' = [shop EXCEPT ![e].items = @ \ {image}]
    /\ UNCHANGED <<row, media, uploads, profiles, storeCalls>>

\* What an answer does to the page, by the kind of its call
ShopReceives(c, r, image) ==
    LET page == shop[c.by] IN
    /\ shop' = [shop EXCEPT ![c.by] =
          CASE c.kind = "logo"   -> [page EXCEPT !.logo = image]
            [] c.kind = "item"   -> [page EXCEPT !.items = page.items \cup {image}]
            [] c.kind = "merch"  -> [page EXCEPT !.saved = r]
            [] c.kind = "remove" -> page
            [] OTHER             -> [page EXCEPT !.saved = r, !.logo = r.logo]]
    /\ storeCalls' = storeCalls \ {c} /\ UNCHANGED profiles

\* "Review latest saved version" is outside the latch: what it reads may come
\* after later answers, and leaves the drafts alone.
ReviewShop(e) ==
    /\ FreeShop(e) /\ shop[e].review = None
    /\ shop' = [shop EXCEPT ![e].review = row]
    /\ UNCHANGED <<row, media, uploads, profiles, storeCalls>>

ShopReviewed(e) ==
    /\ shop[e] # None /\ shop[e].review # None
    /\ shop' = [shop EXCEPT ![e].saved = shop[e].review, ![e].review = None]
    /\ UNCHANGED <<row, media, uploads, profiles, storeCalls>>

-----------------------------------------------------------------------------
(* OrganizerProfileEditor: one save uploads the file, writes the profile and   *)
(* claims the handle, each by a call of its own.                               *)

\* What that page knows of the row.
Identity(r) == [version |-> r.version, logo |-> r.logo, claimed |-> r.claimed]

OpenProfile(p) ==
    /\ profiles[p] = None
    /\ profiles' = [profiles EXCEPT ![p] =
          [saved |-> Identity(row), logo |-> row.logo, file |-> FALSE, then |-> "none", conflict |-> FALSE]]
    /\ UNCHANGED <<row, media, uploads, shop, storeCalls>>

LeaveProfile(p) ==
    /\ profiles[p] # None
    /\ profiles' = [profiles EXCEPT ![p] = None] /\ storeCalls' = Abandoned(p)
    /\ UNCHANGED <<row, media, uploads, shop>>

ChooseFile(p) ==
    /\ profiles[p] # None /\ ~BusyPage(p) /\ uploads < MaxUploads
    /\ profiles' = [profiles EXCEPT ![p].file = TRUE]
    /\ UNCHANGED <<row, media, uploads, shop, storeCalls>>

SaveProfile(p, logo) == Invoke(p, "profile", Body(logo, {}), profiles[p].saved)

SubmitProfile(p) ==
    /\ profiles[p] # None /\ ~BusyPage(p) /\ ~profiles[p].conflict /\ Room
    /\ \E then \in {"leave", "save"} \cup IF profiles[p].saved.claimed THEN {} ELSE {"claim"} :
          profiles' = [profiles EXCEPT ![p].then = then]
    /\ storeCalls' = storeCalls \cup {IF profiles[p].file THEN Invoke(p, "file", Nothing, None)
                            ELSE SaveProfile(p, profiles[p].logo)}
    /\ UNCHANGED <<row, media, uploads, shop>>

\* After the save: a cleanup nobody waits for, and the page is left or reads the row anew.
Settled(p, image) ==
    (IF image = None THEN {} ELSE {Invoke(None, "clear", Nothing, None)})
    \cup IF profiles[p].then = "leave" THEN {} ELSE {Invoke(p, "load", Nothing, None)}

ProfileReceives(c, r, image) ==
    LET p == c.by
        page == profiles[p]
        rest == storeCalls \ {c} IN
    /\ \/ /\ c.kind = "file"
          /\ profiles' = [profiles EXCEPT ![p] = [page EXCEPT !.logo = image, !.file = FALSE]]
          /\ storeCalls' = rest \cup {SaveProfile(p, image)}
       \/ /\ c.kind = "profile"
          /\ profiles' = [profiles EXCEPT ![p] =
                IF page.then = "leave" THEN None
                ELSE [page EXCEPT !.saved.version = r.version, !.saved.logo = c.body.logo]]
          /\ storeCalls' = rest \cup IF page.then = "claim" THEN {Invoke(p, "claim", c.body, None)}
                                ELSE Settled(p, c.body.logo)
       \/ /\ c.kind = "claim"
          /\ profiles' = [profiles EXCEPT ![p].saved.claimed = TRUE]
          /\ storeCalls' = rest \cup Settled(p, c.body.logo)
       \/ /\ c.kind = "load"
          /\ profiles' = [profiles EXCEPT ![p] = [page EXCEPT !.saved = Identity(r), !.logo = r.logo, !.then = "none"]]
          /\ storeCalls' = rest
    /\ UNCHANGED shop

\* "Keep my draft for the reviewed version": the logo is kept only if it was chosen.
KeepDraft(p) ==
    LET page == profiles[p]
        kept == IF ~page.file /\ page.logo = page.saved.logo THEN row.logo ELSE page.logo IN
    /\ page # None /\ page.conflict
    /\ profiles' = [profiles EXCEPT ![p] = [page EXCEPT !.saved = Identity(row), !.conflict = FALSE, !.logo = kept]]
    /\ UNCHANGED <<row, media, uploads, shop, storeCalls>>

-----------------------------------------------------------------------------
(* The functions of the database, each one transaction, and organizer-media *)

\* A save that fails leaves the page as it was; the profile's page says why.
PageFails(c, conflict) ==
    /\ storeCalls' = storeCalls \ {c}
    /\ profiles' = IF c.by \in Profiles
                  THEN [profiles EXCEPT ![c.by] = [@ EXCEPT !.conflict = conflict, !.then = "none"]]
                  ELSE profiles
    /\ UNCHANGED shop

\* What was done is answered; or the answer is lost, or nobody waits for it.
Reply(c, r, image) ==
    \/ PageFails(c, FALSE)
    \/ c.by \in Editors /\ ShopReceives(c, r, image)
    \/ c.by \in Profiles /\ ProfileReceives(c, r, image)

Known(image) == image \in media \cup {None}
SameStamp(c) == row.version = c.base.version

Accepts(c) ==
    \/ c.kind \in {"save", "profile"} /\ SameStamp(c) /\ Known(c.body.logo) /\ ~(row.public /\ c.body.logo = None)
    \/ c.kind = "merch" /\ SameStamp(c) /\ c.body.items \subseteq media
    \/ c.kind = "publish" /\ SameStamp(c) /\ row.claimed /\ row.logo # None
    \/ c.kind = "unpublish" /\ SameStamp(c)
    \/ c.kind = "claim" /\ (row.claimed \/ Known(c.body.logo))

RowAfter(c) ==
    CASE c.kind \in {"save", "profile"} -> [row EXCEPT !.logo = c.body.logo]
      [] c.kind = "merch"     -> [row EXCEPT !.merch = c.body.items]
      [] c.kind = "publish"   -> [row EXCEPT !.public = TRUE]
      [] c.kind = "unpublish" -> [row EXCEPT !.public = FALSE]
      [] c.kind = "claim"     -> [row EXCEPT !.claimed = TRUE,
                                     !.logo = IF row.logo = None THEN c.body.logo ELSE row.logo]

WriteRow(c) ==
    /\ c.kind \in {"save", "profile", "merch", "publish", "unpublish", "claim"} /\ Accepts(c)
    /\ IF c.kind = "claim" /\ row.claimed THEN UNCHANGED row
       ELSE row.version < MaxStamps /\ row' = [RowAfter(c) EXCEPT !.version = row.version + 1]
    /\ Reply(c, row', None)
    /\ UNCHANGED <<media, uploads>>

LoadRow(c) ==
    /\ c.kind = "load"
    /\ Reply(c, row, None)
    /\ UNCHANGED <<row, media, uploads>>

\* No transaction commits: a refusal, or a call that never arrived.
Refuse(c) ==
    /\ PageFails(c, c.kind = "profile" /\ ~SameStamp(c))
    /\ UNCHANGED <<row, media, uploads>>

\* organizer-media, POST
StoreUpload(c) ==
    /\ c.kind \in {"logo", "item", "file"}
    /\ uploads < MaxUploads /\ Cardinality(media) < MediaLimit
    /\ uploads' = uploads + 1 /\ media' = media \cup {uploads'}
    /\ Reply(c, None, uploads')
    /\ UNCHANGED row

Referred == row.merch \cup {row.logo}

\* organizer-media, DELETE: it reads which images are unused ...
ReadUnused(c) ==
    /\ c.kind = "clear"
    /\ storeCalls' = (storeCalls \ {c}) \cup {[c EXCEPT !.kind = "remove", !.body = Body(None, media \ Referred)]}
    /\ UNCHANGED <<row, media, uploads, shop, profiles>>

\* Mutant: what was unused when it was read is removed.
RemoveUnusedAsRead(c) ==
    /\ c.kind = "remove"
    /\ media' = media \ c.body.items
    /\ Reply(c, None, None)
    /\ UNCHANGED <<row, uploads>>

\* ... and removes all of them, unless one is referred to by now.
RemoveUnused(c) ==
    /\ c.kind = "remove" /\ c.body.items \cap Referred = {}
    /\ media' = media \ c.body.items
    /\ Reply(c, None, None)
    /\ UNCHANGED <<row, uploads>>

StorefrontNext ==
    \/ \E e \in Editors :
          \/ OpenShop(e) \/ LeaveShop(e) \/ SaveForm(e) \/ SaveMerch(e) \/ PublishShop(e)
          \/ ClearUploads(e) \/ UploadLogo(e) \/ AddItem(e) \/ RemoveItem(e)
          \/ ReviewShop(e) \/ ShopReviewed(e)
    \/ \E p \in Profiles :
          \/ OpenProfile(p) \/ LeaveProfile(p) \/ ChooseFile(p) \/ SubmitProfile(p) \/ KeepDraft(p)
    \/ \E c \in storeCalls :
          \/ WriteRow(c) \/ LoadRow(c) \/ Refuse(c)
          \/ StoreUpload(c) \/ ReadUnused(c) \/ RemoveUnused(c)

StorefrontSpec == StoreInit /\ [][StorefrontNext]_storeVars

-----------------------------------------------------------------------------
(* Properties *)

\* What the row shows is there to be shown, though a cleanup decided by an
\* earlier state of it.
ShownIsStored == (row.logo # None => row.logo \in media) /\ row.merch \subseteq media

\* What is public has its logo and its handle.
PublicIsComplete == row.public => row.logo # None /\ row.claimed

\* What becomes public is what its page showed, saved, when it was pressed:
\* whatever other pages, lost answers and late reviews did meanwhile.
PublishedIsWhatWasShown ==
    [][row'.public /\ ~row.public =>
          \E c \in storeCalls \ storeCalls' : c.kind = "publish" /\ c.body = Body(row.logo, row.merch)]_storeVars

\* A save replaces only what its page had loaded or last saved.
OnlySeenIsReplaced ==
    [][\A c \in storeCalls \ storeCalls' :
          /\ c.kind \in {"save", "profile"} /\ row' # row => row.logo = c.base.logo
          /\ c.kind = "merch" /\ row' # row => row.merch = c.base.merch]_storeVars

\* What the storefront refers to, publishes and replaces.
StorefrontPromise ==
    [](ShownIsStored /\ PublicIsComplete) /\ PublishedIsWhatWasShown /\ OnlySeenIsReplaced

=============================================================================
