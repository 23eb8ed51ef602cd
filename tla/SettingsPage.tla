---------------------------- MODULE SettingsPage ----------------------------
(***************************************************************************)
(* The settings of the hotel (pages/SettingsPage): five sections of one    *)
(* form, of which the save sends the one that is open.  The answer is put  *)
(* in the place of the whole form, the other sections and the logo         *)
(* included.  The displayed name of the hotel belongs to two sections.     *)
(***************************************************************************)
EXTENDS Screen

SettingsSections == {"general", "reservations", "billing", "security", "appearance"}
SettingsParts == SettingsSections \cup {"name"}
SettingsFields(s) == {s} \cup (IF s \in {"general", "appearance"} THEN {"name"} ELSE {})

\* A part of the form: as the page was built, as the server has it, edited, or wrong.
SettingsValues == {"default", "saved", "edited", "wrong"}

\* The section was stored by the browser: it may be one that no longer exists.
SettingsViews ==
    [page : {"settings"}, section : SettingsSections \cup {"unknown"}, manages : BOOLEAN,
     form : [SettingsParts -> SettingsValues], logo : {"kept", "new", "removed"},
     busy : SUBSET {"load", "save"}, status : Statuses]

SettingsInit ==
    /\ \E s \in SettingsSections \cup {"unknown"}, m \in BOOLEAN :
          view = [page |-> "settings", section |-> s, manages |-> m,
                  form |-> [p \in SettingsParts |-> "default"], logo |-> "kept",
                  busy |-> {"load"}, status |-> "none"]
    /\ net = Mounted({"settings"}, "load") /\ Start

SettingsAllSaved(v) == [v EXCEPT !.form = [p \in SettingsParts |-> "saved"]]

\* A failed reading leaves the values the page was built with, and they may be saved.
SettingsLoaded(r) ==
    /\ Reads(r, {"settings"})
    /\ view' = IF r.step = "served" THEN SettingsAllSaved([view EXCEPT !.busy = @ \ {"load"}])
               ELSE [view EXCEPT !.busy = @ \ {"load"}, !.status = "error"]
    /\ Sends({r}, {}) /\ UNCHANGED server

SettingsOpen(s) ==
    /\ "load" \notin view.busy /\ s # view.section
    /\ view' = [view EXCEPT !.section = s] /\ UNCHANGED net /\ Input

\* Every field is disabled while a section is saved.
SettingsEnabled == "load" \notin view.busy /\ view.manages /\ "save" \notin view.busy

SettingsEdit(p, x) ==
    /\ SettingsEnabled /\ view.section # "unknown" /\ p \in SettingsFields(view.section)
    /\ view.form[p] # x
    /\ view' = [view EXCEPT !.form[p] = x, !.status = "none"] /\ UNCHANGED net /\ Input

SettingsChooseLogo(l) ==
    /\ SettingsEnabled /\ view.section = "appearance" /\ view.logo # l
    /\ view' = [view EXCEPT !.logo = l] /\ UNCHANGED net /\ Input

\* The name is required by the general section only.
SettingsChecked(s) == {s} \cup (IF s = "general" THEN {"name"} ELSE {})
SettingsValid(s) == \A p \in SettingsChecked(s) : view.form[p] # "wrong"

\* Mutant: a section is saved while one is being saved.
SettingsSaveTwice ==
    /\ view.manages /\ "load" \notin view.busy /\ view.section # "unknown"
    /\ SettingsValid(view.section) /\ MayWrite("save")
    /\ view' = [view EXCEPT !.busy = @ \cup {"save"}, !.status = "none"]
    /\ Sends({}, {Write("save", view.section, "save")}) /\ Input

\* No field of an unknown section is sent, and its save is.
SettingsSave ==
    /\ SettingsEnabled
    /\ IF view.section # "unknown" /\ ~SettingsValid(view.section)
       THEN view' = [view EXCEPT !.status = "error"] /\ UNCHANGED net
       ELSE /\ MayWrite("save")
            /\ view' = [view EXCEPT !.busy = @ \cup {"save"}, !.status = "none"]
            /\ Sends({}, {Write("save", view.section, "save")})
    /\ Input

SettingsSaved(r) ==
    /\ Wrote(r, {"save"})
    /\ LET v == [view EXCEPT !.busy = @ \ {"save"}]
       IN view' = IF r.step = "served" THEN [SettingsAllSaved(v) EXCEPT !.logo = "kept"]
                  ELSE [v EXCEPT !.status = "error"]
    /\ Sends({r}, {}) /\ UNCHANGED server

-----------------------------------------------------------------------------

SettingsTyping(p) == \E x \in {"edited", "wrong"} : SettingsEdit(p, x)
SettingsGeneral == SettingsTyping("general") \/ SettingsTyping("name")
SettingsReservations == view.section = "reservations" /\ SettingsTyping("reservations")
SettingsBilling == view.section = "billing" /\ SettingsTyping("billing")
SettingsSecurity == view.section = "security" /\ SettingsTyping("security")
SettingsAppearance ==
    \/ SettingsTyping("appearance") \/ SettingsTyping("name")
    \/ \E l \in {"new", "removed"} : SettingsChooseLogo(l)
SettingsForm ==
    \/ view.section = "general" /\ SettingsGeneral
    \/ SettingsReservations \/ SettingsBilling \/ SettingsSecurity
    \/ view.section = "appearance" /\ SettingsAppearance
SettingsFrame == SettingsSave \/ \E s \in SettingsSections : SettingsOpen(s)

SettingsNext ==
    /\ view.page = "settings"
    /\ SettingsForm \/ SettingsFrame \/ \E r \in net : SettingsLoaded(r) \/ SettingsSaved(r)
=============================================================================
