--------------------------- MODULE MCTenantAccess ---------------------------
(* The small instance of TenantAccess: two tenants, windows of one or two     *)
(* days, two administrators' requests at a time; and the facts about what    *)
(* goes on within a tenant: roles, memos, documents, forms, stock, reports.   *)
EXTENDS TenantAccess, Memos, Documents, Forms, RoleAccess, RequestLimits,
        Inventory, WeeklyReports
=============================================================================
