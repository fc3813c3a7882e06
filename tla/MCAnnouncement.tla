---- MODULE MCAnnouncement ----
(* Instances of Announcement *)
EXTENDS Announcement
====
