--------------------------- MODULE MailTemplates ---------------------------
(***************************************************************************)
(* E-mail templates: a draft the members edit, the copy that is published, *)
(* the form a browser edits the draft in, the mails automations render.    *)
(*                                                                         *)
(*   packages/database/src/messaging/repository.ts       the SQL           *)
(*   apps/server/src/messaging/delivery-worker.ts        rendering a mail  *)
(*   apps/client/src/features/emails/email-pages.tsx     the page, its key *)
(*   apps/client/src/features/emails/email-forms.tsx     the form          *)
(*   apps/client/src/features/emails/email-tables.tsx    the table         *)
(*                                                                         *)
(* Subject and content are model values.  The inputs of the dialog are     *)
(* uncontrolled: they start from the row each time it opens.  The content  *)
(* is React state of the form, which lives as long as the form's key.      *)
(***************************************************************************)
EXTENDS Naturals, FiniteSets

CONSTANTS
  MailTemplateIds,   \* ids a template may get
  Texts,             \* subjects and contents
  Blank,             \* the content of a form for a new template
  NoTemplate,        \* the key of the form for a new template
  MaxMailRevision    \* bound: revisions of a draft

ASSUME MailAssumption ==
  /\ NoTemplate \notin MailTemplateIds
  /\ Blank \in Texts
  /\ MaxMailRevision \in Nat \ {0}

(* The column publishedRevision is 0 where the code has NULL.              *)
MailTemplate ==
  [status : {"none", "live", "archived"}, subject : Texts, content : Texts,
   draftRevision : Nat, publishedSubject : Texts, publishedContent : Texts,
   publishedRevision : Nat]
NoMailTemplate ==
  [status |-> "none", subject |-> Blank, content |-> Blank, draftRevision |-> 0,
   publishedSubject |-> Blank, publishedContent |-> Blank, publishedRevision |-> 0]

VARIABLES
  mailTemplate,   \* MailTemplateIds -> the row of email_templates
  listedMail,     \* the rows as the browser listed them last
  mailForm,       \* the form of the browser's page
  sentMails,      \* subject and content of the mails rendered
  releases,       \* subject and content each publication put together (history)
  carried         \* the form's content outlived the dialog it was typed in (history)

mailRows == <<mailTemplate, sentMails, releases>>
mailVars == <<mailRows, listedMail, mailForm, carried>>

Letter == [subject : Texts, content : Texts]
LetterOf(row) == [subject |-> row.subject, content |-> row.content]
MailForm ==
  [open : BOOLEAN, editing : MailTemplateIds \cup {NoTemplate}, shown : MailTemplate,
   subject : Texts, content : Texts, touched : BOOLEAN]
ClosedForm(content) ==
  [open |-> FALSE, editing |-> NoTemplate, shown |-> NoMailTemplate, subject |-> Blank,
   content |-> content, touched |-> FALSE]

MailTypeOK ==
  /\ mailTemplate \in [MailTemplateIds -> MailTemplate]
  /\ listedMail \in [MailTemplateIds -> MailTemplate]
  /\ mailForm \in MailForm
  /\ sentMails \subseteq Letter /\ releases \subseteq Letter
  /\ carried \in BOOLEAN

MailInit ==
  /\ mailTemplate = [id \in MailTemplateIds |-> NoMailTemplate]
  /\ listedMail = mailTemplate
  /\ mailForm = ClosedForm(Blank)
  /\ sentMails = {} /\ releases = {}
  /\ carried = FALSE

Live(id) == mailTemplate[id].status = "live"
SetTemplate(id, row) == mailTemplate' = [mailTemplate EXCEPT ![id] = row]

-----------------------------------------------------------------------------
(* The statements of the repository; false where no live row matched.      *)

CreateEmailTemplate(id, letter) ==
  /\ mailTemplate[id].status = "none"
  /\ SetTemplate(id, [NoMailTemplate EXCEPT !.status = "live", !.subject = letter.subject,
                                            !.content = letter.content, !.draftRevision = 1])

UpdateEmailTemplate_KeepsRevision(id, letter) ==
  /\ Live(id) /\ mailTemplate[id].draftRevision < MaxMailRevision
  /\ SetTemplate(id, [mailTemplate[id] EXCEPT !.subject = letter.subject,
                                              !.content = letter.content])

UpdateEmailTemplate(id, letter) ==
  /\ Live(id) /\ mailTemplate[id].draftRevision < MaxMailRevision
  /\ SetTemplate(id, [mailTemplate[id] EXCEPT !.subject = letter.subject,
                                              !.content = letter.content,
                                              !.draftRevision = @ + 1])

PublishEmailTemplate(id) ==
  LET row == mailTemplate[id]
  IN  /\ Live(id)
      /\ SetTemplate(id, [row EXCEPT !.publishedSubject = row.subject,
                                     !.publishedContent = row.content,
                                     !.publishedRevision = row.draftRevision])
      /\ releases' = releases \cup {LetterOf(row)}

ArchiveEmailTemplate(id) ==
  /\ Live(id)
  /\ SetTemplate(id, [mailTemplate[id] EXCEPT !.status = "archived"])

(* Another member saves, publishes or archives.                            *)
OthersWrite ==
  /\ \E id \in MailTemplateIds :
       \/ \E letter \in Letter : UpdateEmailTemplate(id, letter) /\ UNCHANGED releases
       \/ PublishEmailTemplate(id)
       \/ ArchiveEmailTemplate(id) /\ UNCHANGED releases
  /\ UNCHANGED <<listedMail, mailForm, sentMails, carried>>

(* An automation's node renders a mail from the published copy.            *)
CreateEmailDelivery(id) ==
  LET row == mailTemplate[id]
  IN  /\ Live(id) /\ row.publishedRevision # 0
      /\ sentMails' = sentMails \cup
           {[subject |-> row.publishedSubject, content |-> row.publishedContent]}
      /\ UNCHANGED <<mailTemplate, releases, listedMail, mailForm, carried>>

-----------------------------------------------------------------------------
(* The browser.                                                            *)

ListTemplates ==
  /\ listedMail' = mailTemplate
  /\ UNCHANGED <<mailRows, mailForm, carried>>

(* The button of a row: disabled where the list shows no unpublished       *)
(* changes.                                                                *)
PublishFromTable(id) ==
  /\ listedMail[id].status = "live"
  /\ listedMail[id].publishedRevision # listedMail[id].draftRevision
  /\ PublishEmailTemplate(id)
  /\ UNCHANGED <<listedMail, mailForm, sentMails, carried>>

(* The dialog opens for a row of the list, or for a new template.  The     *)
(* form is mounted anew, with the row's content, only if its key changes.  *)
OpenForm(key, row) ==
  /\ ~mailForm.open
  /\ mailForm' = [open |-> TRUE, editing |-> key, shown |-> row, subject |-> row.subject,
                  content |-> IF key = mailForm.editing THEN mailForm.content ELSE row.content,
                  touched |-> FALSE]
  /\ carried' = (key = mailForm.editing /\ carried)
  /\ UNCHANGED <<mailRows, listedMail>>

OpenTemplateForm(id) == listedMail[id].status = "live" /\ OpenForm(id, listedMail[id])
OpenNewTemplateForm == OpenForm(NoTemplate, NoMailTemplate)

TypeInForm ==
  /\ mailForm.open
  /\ \E letter \in Letter :
       mailForm' = [mailForm EXCEPT !.subject = letter.subject, !.content = letter.content,
                                    !.touched = TRUE]
  /\ UNCHANGED <<mailRows, listedMail, carried>>

(* Closed without saving: the page keeps the row it edits, the form its    *)
(* content.                                                                *)
DismissForm ==
  /\ mailForm.open
  /\ mailForm' = [mailForm EXCEPT !.open = FALSE, !.touched = FALSE]
  /\ carried' = TRUE
  /\ UNCHANGED <<mailRows, listedMail>>

(* Saved: the page forgets the row it edits, so the form of an edited      *)
(* template is replaced by a fresh one, that of a new template is not.  A  *)
(* refused save leaves the dialog open, with an error.                     *)
SaveTemplateForm ==
  /\ mailForm.open
  /\ IF mailForm.editing = NoTemplate
     THEN /\ \E id \in MailTemplateIds : CreateEmailTemplate(id, LetterOf(mailForm))
          /\ mailForm' = ClosedForm(mailForm.content)
          /\ carried' = TRUE
     ELSE /\ UpdateEmailTemplate(mailForm.editing, LetterOf(mailForm))
          /\ mailForm' = ClosedForm(Blank)
          /\ carried' = FALSE
  /\ UNCHANGED <<listedMail, sentMails, releases>>

MailNext ==
  \/ \E id \in MailTemplateIds :
       CreateEmailDelivery(id) \/ PublishFromTable(id) \/ OpenTemplateForm(id)
  \/ ListTemplates \/ OpenNewTemplateForm \/ TypeInForm \/ DismissForm \/ SaveTemplateForm
  \/ OthersWrite

MailSpec == MailInit /\ [][MailNext]_mailVars

-----------------------------------------------------------------------------

(* A template whose list row shows no unpublished changes has none: equal  *)
(* revisions mean equal texts, however edits and publications interleave.  *)
(* (messaging/repository.ts hasUnpublishedChanges)                         *)
RevisionsTellDrafts ==
  \A id \in MailTemplateIds :
    LET row == mailTemplate[id]
    IN  /\ row.publishedRevision <= row.draftRevision
        /\ row.publishedRevision # 0 /\ row.publishedRevision = row.draftRevision =>
             row.publishedSubject = row.subject /\ row.publishedContent = row.content

(* A mail is a subject and a content that were published together: what is *)
(* only a draft does not reach automations.  (the form's description,      *)
(* email-forms.tsx; findSendableTemplate)                                  *)
MailsWerePublished == sentMails \subseteq releases

(* A form nobody has typed in shows the row it was opened for, unless a    *)
(* form with the same key was dismissed, or created a template, before.    *)
(* (email-pages.tsx key, email-forms.tsx useState)                         *)
FormShowsRow ==
  mailForm.open /\ ~mailForm.touched /\ ~carried => LetterOf(mailForm) = LetterOf(mailForm.shown)

MailSound == RevisionsTellDrafts /\ MailsWerePublished /\ FormShowsRow

=============================================================================
