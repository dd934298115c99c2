------------------------------- MODULE WayBack -------------------------------
(***************************************************************************)
(* Applet with a history variable: whether the menu has a reason of its    *)
(* own to say that openvpn3 is unavailable.  view_menu draws nothing else  *)
(* then, and so no button that leads back to a prompt; the popup asks for  *)
(* the profiles whenever it opens, and clears the menu if it gets them.    *)
(***************************************************************************)
EXTENDS Applet

VARIABLE excused   \* history: a fetch, or a command about the profiles, has
                   \* failed since the popup last opened

wayBackVars == <<appletVars, excused>>

\* The worker has just given up a fetch or a command about the profiles.
FailsNow ==
  /\ \E op \in ProfileOps : Doing(op)
  /\ Done
  /\ unavailable' # None

\* The popup opens and, since there is a worker, asks it for the profiles.
Opens == ready /\ ~popup /\ popup'

WayBackNext ==
  /\ AppletNext
  /\ excused' = (FailsNow \/ (excused /\ ~Opens))

WayBackSpec ==
  AppletInit /\ excused = FALSE /\ [][WayBackNext]_wayBackVars

-----------------------------------------------------------------------------
(* Properties *)

\* A session that waits for its prompt is not out of reach for good: the panel
\* knows of the prompt, and is on its page, or its menu has the "Enter
\* credentials" button, unless a fetch or a command about the profiles has
\* failed since the popup last opened (view_menu, open_popup).
LivePromptIsReachable ==
  Quiet /\ promptOpen /\ active # None =>
    /\ snapshot.prompt # None /\ snapshot.prompt.session = active
    /\ snapshot.state = "AuthPending"
    /\ On("Auth") \/ snapshot.unavailable = None \/ excused
=============================================================================
