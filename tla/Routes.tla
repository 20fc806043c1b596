--------------------------------- MODULE Routes --------------------------------
(***************************************************************************)
(* The routes of the backend and the middlewares each of them runs before  *)
(* its controller.  A chain is named for what it asks of a request:        *)
(*                                                                         *)
(*   "PUBLIC"      nothing                                                 *)
(*   "USER"        AuthMiddleware                                          *)
(*   "ADMIN"       AuthMiddleware, AdminMiddleware                         *)
(*   "MEMBER"      AuthMiddleware, WorkspaceMiddleware                     *)
(*   a role        the same and RbacMiddleware with that role              *)
(*   "NAMED ACCOUNTANT"  as "ACCOUNTANT", with WorkspaceRouteParamGuard    *)
(*                 before WorkspaceMiddleware: the path names the workspace *)
(*                                                                         *)
(* A "USER" route that touches a workspace leaves its members to the       *)
(* service behind it.                                                      *)
(***************************************************************************)

WorkspaceChains == {"MEMBER", "EDITOR", "ACCOUNTANT", "OWNER", "NAMED ACCOUNTANT"}

\* Accounts, sessions, passwords and the data of third parties.
IdentityRoutes ==
    [register |-> "PUBLIC", authenticate |-> "PUBLIC", refresh |-> "PUBLIC",
     verify |-> "PUBLIC", resend |-> "PUBLIC", me |-> "USER",
     forgotPassword |-> "PUBLIC", resetPassword |-> "PUBLIC",
     openFinanceIngest |-> "PUBLIC", getCnpj |-> "USER", getCep |-> "USER"]

\* Workspaces, their certificate, invites and members.
WorkspaceRoutes ==
    [updateProfile |-> "USER", listWorkspaces |-> "USER", createWorkspace |-> "USER",
     updateWorkspace |-> "USER", uploadCertificate |-> "OWNER",
     createInvite |-> "MEMBER", revokeInvite |-> "MEMBER", acceptInvite |-> "USER",
     listReceived |-> "USER", rejectInvite |-> "USER",
     listMembers |-> "MEMBER", listSent |-> "MEMBER", removeMember |-> "MEMBER"]

\* Categories, accounts, transactions and uploads.
FinanceRoutes ==
    [listCategories |-> "MEMBER", createCategory |-> "MEMBER", deleteCategory |-> "MEMBER",
     listAccounts |-> "MEMBER", createAccount |-> "MEMBER", updateAccount |-> "MEMBER",
     deleteAccount |-> "MEMBER",
     listAllTransactions |-> "USER", listTransactions |-> "MEMBER",
     getTransaction |-> "MEMBER", createTransaction |-> "MEMBER",
     deleteTransaction |-> "MEMBER", getAttachmentUrl |-> "MEMBER",
     getSummary |-> "MEMBER", requestUploadUrl |-> "MEMBER", localUpload |-> "PUBLIC"]

\* Transfers between workspaces, recurring pro-labore, imports and the inbox.
MovementRoutes ==
    [transfer |-> "USER", createSchedule |-> "USER", listSchedules |-> "USER",
     deactivateSchedule |-> "USER", listPendings |-> "USER", confirmPending |-> "USER",
     cancelPending |-> "USER", importOFX |-> "MEMBER",
     listGlobalPending |-> "USER", refreshCache |-> "USER", listPending |-> "MEMBER",
     merge |-> "MEMBER", approve |-> "MEMBER", reject |-> "MEMBER"]

\* Insights, Telegram, exports and administration.
ServiceRoutes ==
    [listInsights |-> "MEMBER", dismissInsight |-> "EDITOR",
     generateLink |-> "USER", revokeLink |-> "USER", getStatus |-> "USER",
     createDestination |-> "USER",
     validateExport |-> "ACCOUNTANT", generateExport |-> "ACCOUNTANT",
     downloadExport |-> "NAMED ACCOUNTANT", getMetrics |-> "ADMIN"]

ChainsOf(table) == {table[name] : name \in DOMAIN table}

\* What a request to some route has to pass.
RouteChains ==
    ChainsOf(IdentityRoutes) \cup ChainsOf(WorkspaceRoutes) \cup ChainsOf(FinanceRoutes)
    \cup ChainsOf(MovementRoutes) \cup ChainsOf(ServiceRoutes)
===============================================================================
