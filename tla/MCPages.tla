------------------------------ MODULE MCPages ------------------------------
(***************************************************************************)
(* The pages of the web application for TLC: one of them, with its         *)
(* requests and what the site keeps for it.                                *)
(***************************************************************************)
EXTENDS Gallery, AdminPages, UserPages, ImportPages, SettingsPages, AccountPages

PageInit ==
    GalleryInit \/ AdminInit \/ UserInit \/ ImportInit \/ SettingsInit \/ AccountsInit
PageNext ==
    \/ At("gallery") /\ GalleryNext
    \/ AdminNext \/ UserNext \/ ImportNext \/ SettingsNext \/ AccountsNext

PageSpec == PageInit /\ [][PageNext]_pageVars

-----------------------------------------------------------------------------
(* Properties of several pages *)

\* What a button, a spinner or a dialog of a page waits for is under way: nothing stays disabled by a
\* request that failed, was overtaken or belongs to a visit before.
PagesSettle ==
    /\ GallerySettles /\ AdminSettles /\ UserPagesSettle /\ ImportPagesSettle /\ SettingsPagesSettle
    /\ AccountsSettle

\* What is sent for an item was filled or selected for it on the page: fields, secrets and chosen
\* accounts never reach another one, and a secret that is not shown is neither blanked nor sent back
\* over a newer one.
FormsSaveTheirOwn ==
    /\ NoItemGetsAnothersFields /\ SecretsStay /\ ImportsOwnAccounts /\ SettingsSecretsKept
    /\ AccountsActOnShown

\* A check-in that is enabled and a restart that is due are offered once the answers are there,
\* whichever of them was last.
DueStaysOffered == CheckinStaysOffered /\ RestartStaysOffered

\* No answer replaces what the administrator has on screen and nowhere else: codes that are shown in
\* plain text once, settings that were typed and not saved yet.
ShownStays == GeneratedCodesStay /\ RegisterDraftKept
=============================================================================
