------------------------ MODULE NotificationPrivacy ------------------------
(***************************************************************************)
(* The Notification Privacy Model (packages/privacy): the policy resolved  *)
(* for one operation, content class and surface, and the barrier before    *)
(* anything is shown.                                                      *)
(*                                                                         *)
(* Of a policy it is kept whether it allows and whether content is         *)
(* allowed: permission request, badge, sound, vibration, push, persistence *)
(* and network are false in every one.                                     *)
(***************************************************************************)

NotificationModes ==
  {"standard", "private", "ghost", "bunker", "offline_capsule", "emergency", "sovereign_room"}

InAppIndicatorModes == {"standard", "private", "sovereign_room"}

PushOperations ==
  {"notification.push_subscribe", "notification.push_receive",
   "notification.service_worker_show"}

InAppOperations == {"notification.show", "notification.group", "notification.clear"}

\* NOTIFICATION_OPERATION_KINDS but the unknown one.
NotificationOperations ==
  PushOperations \cup InAppOperations
    \cup {"notification.permission_request", "notification.preview", "notification.badge",
          "notification.sound", "notification.vibration", "notification.channel_create"}

GenericContentClasses == {"none", "generic", "app_name_only"}

SensitiveContentClasses ==
  {"room_activity", "room_name", "sender_alias", "message_preview", "task_title",
   "decision_title", "document_title", "ai_summary", "protected_content", "secret"}

NotificationContent == GenericContentClasses \cup SensitiveContentClasses \cup {"activity_count"}

SystemSurfaces ==
  {"system_banner", "lock_screen", "notification_center", "app_badge", "sound", "vibration",
   "push_service", "service_worker"}

NotificationSurfaces == SystemSurfaces \cup {"in_app"}

------------------------------------------------------------------------------
(* The policy                                                              *)

\* room and roomContent are what a room policy says of allowed and of
\* contentAllowed.
NotificationQuestions ==
  [gate : {"notification"}, mode : NotificationModes,
   operation : NotificationOperations \cup {"notification.unknown"},
   contentClass : NotificationContent \cup {"unknown"},
   surface : NotificationSurfaces \cup {"unknown"},
   room : BOOLEAN, roomContent : BOOLEAN, sealed : BOOLEAN]

KnownNotification(q) ==
  /\ q.operation \in NotificationOperations
  /\ q.contentClass \in NotificationContent
  /\ q.surface \in NotificationSurfaces

\* Fault: a sealed screen shows what an open one shows.
NotificationAllowedUnsealed(q) ==
  /\ KnownNotification(q)
  /\ q.surface = "in_app"
  /\ q.contentClass \in GenericContentClasses
  /\ q.mode \in InAppIndicatorModes
  /\ q.operation \in InAppOperations
  /\ q.room

\* resolveNotificationPolicy(q).allowed.  Every branch before the last denies, so
\* what remains is one indicator inside the application, generic, and without
\* any content behind a sealed screen.
NotificationAllowed(q) ==
  /\ KnownNotification(q)
  /\ q.surface = "in_app"
  /\ q.contentClass \in GenericContentClasses
  /\ q.mode \in InAppIndicatorModes
  /\ q.operation \in InAppOperations
  /\ q.sealed => q.contentClass = "none"
  /\ q.room

\* resolveNotificationPolicy(q).contentAllowed.
ContentAllowed(q) == NotificationAllowed(q) /\ q.roomContent

------------------------------------------------------------------------------
(* The barrier                                                             *)

\* expectedNotificationScope: an operation's own scope, or that of showing.
ExpectedNotificationScope(operation) ==
  IF operation \in PushOperations
       \cup {"notification.permission_request", "notification.badge", "notification.sound",
             "notification.vibration"}
  THEN operation
  ELSE "notification.show"

\* assertNotificationOperationAllowed, for the request the policy was resolved
\* for: any other request is turned away.
NotificationBarrierPasses(q, decision, safe) ==
  /\ KnownNotification(q)
  /\ decision.verdict = "allowed"
  /\ decision.capability = "notifications"
  /\ decision.scope = ExpectedNotificationScope(q.operation)
  /\ NotificationAllowed(q)
  /\ q.operation \notin
       {"notification.permission_request", "notification.push_subscribe",
        "notification.push_receive", "notification.badge"}
  /\ q.contentClass \in SensitiveContentClasses => ContentAllowed(q)
  /\ q.surface \notin {"notification_center", "push_service"}
  /\ safe
==============================================================================
