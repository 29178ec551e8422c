--------------------------- MODULE MCProxyVolume ---------------------------
(* Small instances of ProxyVolume for TLC. *)
EXTENDS ProxyVolume

ProxyWorlds ==
  {{"other", "report"}, {"other", "delete"}, {"report", "fail"}, {"fail", "delete"},
   {"report", "restart"}, {"late", "fail", "delete"}, {"evict", "delete"},
   {"home", "restart", "delete"}, {"home", "report", "fail"}}
=============================================================================
