------------------------------ MODULE PagesMC -------------------------------
(* The pages organizers and staff work on.  They share no state: one run, in  *)
(* which every behaviour stays with one part.                                 *)
EXTENDS OrganizerSession, Moderation, EventEditor, NewDraft, Storefront,
        MessageComposer, EventImport

\* Two spellings of one address, and another.
Host(a) == IF a = "b" THEN "b" ELSE "a"

\* One message, with and without blanks around it.
DraftsOf == {[to |-> "everyone", words |-> "w", padded |-> p] : p \in BOOLEAN}

VARIABLE focus   \* the part a behaviour stays with

pagesVars == <<focus, sessionVars, moderationVars, editorVars, draftVars, copyVars,
               storeVars, messageVars, importVars>>

PagesInit ==
    /\ focus \in {"session", "moderation", "editor", "draft", "duplicate", "store",
                  "message", "import"}
    /\ SessionInit
    /\ ModerationInit
    /\ EditorInit
    /\ NewDraftInit
    /\ DuplicateInit
    /\ StoreInit
    /\ MessageInit
    /\ ImportInit
    /\ focus # "moderation" => moderated.public
    /\ focus # "editor" => event.answers = None
    /\ event.text = "s"   \* texts are only ever compared
    /\ focus # "duplicate" => source.flyer
    /\ focus # "store" => row.claimed

PagesNext ==
    /\ UNCHANGED focus
    /\ \/ focus = "session" /\ OrganizerSessionNext
          /\ UNCHANGED <<moderationVars, editorVars, draftVars, copyVars, storeVars,
                         messageVars, importVars>>
       \/ focus = "moderation" /\ ModerationNext
          /\ UNCHANGED <<sessionVars, editorVars, draftVars, copyVars, storeVars,
                         messageVars, importVars>>
       \/ focus = "editor" /\ EventEditorNext
          /\ UNCHANGED <<sessionVars, moderationVars, draftVars, copyVars,
                         storeVars, messageVars, importVars>>
       \/ focus = "draft" /\ NewDraftNext
          /\ UNCHANGED <<sessionVars, moderationVars, editorVars, copyVars,
                         storeVars, messageVars, importVars>>
       \/ focus = "duplicate" /\ DuplicateEventNext
          /\ UNCHANGED <<sessionVars, moderationVars, editorVars, draftVars,
                         storeVars, messageVars, importVars>>
       \/ focus = "store" /\ StorefrontNext
          /\ UNCHANGED <<sessionVars, moderationVars, editorVars, draftVars,
                         copyVars, messageVars, importVars>>
       \/ focus = "message" /\ MessageComposerNext
          /\ UNCHANGED <<sessionVars, moderationVars, editorVars, draftVars,
                         copyVars, storeVars, importVars>>
       \/ focus = "import" /\ EventImportNext
          /\ UNCHANGED <<sessionVars, moderationVars, editorVars, draftVars,
                         copyVars, storeVars, messageVars>>

PagesSpec == PagesInit /\ [][PagesNext]_pagesVars

=============================================================================
