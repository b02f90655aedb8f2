------------------------------- MODULE Routes -------------------------------
(***************************************************************************)
(* Who calls what.  The generated client (clients/go/client.gen.go) names  *)
(* for each operation the message it sends and the one it expects; the     *)
(* server's routing table (api/internal/server/dispatch.go), written by    *)
(* hand, names the message it decodes and the one it encodes, and whether  *)
(* a failure may be answered with a ServiceError.                          *)
(***************************************************************************)
EXTENDS Naturals, Schema

Calls(op, request, response) ==
  [op |-> op, request |-> request, response |-> response]

Fallible(op, request, response) ==
  [op |-> op, request |-> request, response |-> response, errors |-> TRUE]
Infallible(op, request, response) ==
  [op |-> op, request |-> request, response |-> response, errors |-> FALSE]

\* A table by the names of its operations.
ByOp(rows) ==
  [op \in {rows[i].op : i \in DOMAIN rows} |->
     rows[CHOOSE i \in DOMAIN rows : rows[i].op = op]]

-----------------------------------------------------------------------------
\* The client, service by service.

AuthClient == ByOp(<<
  Calls("begin-login", BeginLoginRequest, BeginLoginResponse),
  Calls("logout", Empty, Empty),
  Calls("whoami", Empty, UserProfile)>>)

BoardClient == ByOp(<<
  Calls("list-boards", ListBoardsRequest, BoardPage),
  Calls("get-board", Text, Board),
  Calls("create-board", CreateBoardRequest, Board),
  Calls("update-board", UpdateBoardRequest, Board),
  Calls("archive-board", Text, Empty),
  Calls("set-board-member", SetBoardMemberRequest, Empty),
  Calls("remove-board-member", RemoveBoardMemberRequest, Empty)>>)

CategoryClient == ByOp(<<
  Calls("list-board-categories", Text, CategoryList),
  Calls("create-category", CreateCategoryRequest, Category),
  Calls("update-category", UpdateCategoryRequest, Category),
  Calls("delete-category", DeleteCategoryRequest, Empty),
  Calls("list-categories", Empty, CategoryList)>>)

ThreadClient == ByOp(<<
  Calls("list-posts", ListPostsRequest, PostPage),
  Calls("get-thread", GetThreadRequest, Thread),
  Calls("create-post", CreatePostRequest, Post),
  Calls("create-comment", CreateCommentRequest, Comment),
  Calls("edit-post", EditPostRequest, Post),
  Calls("edit-comment", EditCommentRequest, Comment),
  Calls("list-revisions", TargetRef, RevisionList),
  Calls("delete-post", Text, Empty),
  Calls("delete-comment", Text, Empty)>>)

EndorsementClient == ByOp(<<
  Calls("endorse", EndorseRequest, Endorsement),
  Calls("retract", EndorseRequest, Empty),
  Calls("list-endorsements", TargetRef, EndorsementList)>>)

SettingsClient == ByOp(<<
  Calls("get-settings", Empty, UserSettings),
  Calls("update-settings", UpdateSettingsRequest, UserSettings),
  Calls("list-mention-grants", Empty, MentionGrantList),
  Calls("grant-mention", Text, Empty),
  Calls("revoke-mention", Text, Empty)>>)

SocialClient == ByOp(<<
  Calls("list-friend-groups", Empty, FriendGroupList),
  Calls("create-friend-group", CreateFriendGroupRequest, FriendGroup),
  Calls("delete-friend-group", Text, Empty),
  Calls("add-friend", AddFriendRequest, Empty),
  Calls("remove-friend", RemoveFriendRequest, Empty),
  Calls("resolve-user", Text, UserProfile)>>)

SubscriptionClient == ByOp(<<
  Calls("subscribe", TargetRef, Subscription),
  Calls("unsubscribe", TargetRef, Empty),
  Calls("set-muted", SetMutedRequest, Subscription),
  Calls("list-subscriptions", Empty, SubscriptionList)>>)

ReadClient == ByOp(<<
  Calls("mark-read", TargetRef, Empty),
  Calls("mark-unread", TargetRef, Empty),
  Calls("unread-summary", Empty, UnreadSummary)>>)

NotificationClient == ByOp(<<
  Calls("list-notifications", ListNotificationsRequest, NotificationPage),
  Calls("mark-notification-read", ListOf(Text), Empty),
  Calls("mark-all-read", Empty, Empty)>>)

IntegrationClient == ByOp(<<
  Calls("create-github-mapping", CreateMappingRequest, GithubMapping),
  Calls("list-github-mappings", Empty, MappingList),
  Calls("delete-github-mapping", Text, Empty),
  Calls("add-trusted-domain", Text, Empty),
  Calls("remove-trusted-domain", Text, Empty),
  Calls("list-trusted-domains", Empty, DomainList)>>)

\* A client per service, as the services are named in requests.
Services ==
  {"AuthService", "BoardService", "CategoryService", "ThreadService",
   "EndorsementService", "SettingsService", "SocialService",
   "SubscriptionService", "ReadService", "NotificationService",
   "IntegrationService"}
Client ==
  [s \in Services |->
    CASE s = "AuthService" -> AuthClient
      [] s = "BoardService" -> BoardClient
      [] s = "CategoryService" -> CategoryClient
      [] s = "ThreadService" -> ThreadClient
      [] s = "EndorsementService" -> EndorsementClient
      [] s = "SettingsService" -> SettingsClient
      [] s = "SocialService" -> SocialClient
      [] s = "SubscriptionService" -> SubscriptionClient
      [] s = "ReadService" -> ReadClient
      [] s = "NotificationService" -> NotificationClient
      [] s = "IntegrationService" -> IntegrationClient]

-----------------------------------------------------------------------------
\* The server.

AuthRoutes == ByOp(<<
  Fallible("begin-login", BeginLoginRequest, BeginLoginResponse),
  Infallible("logout", Empty, Empty),
  Fallible("whoami", Empty, UserProfile)>>)

BoardRoutes == ByOp(<<
  Infallible("list-boards", ListBoardsRequest, BoardPage),
  Fallible("get-board", Text, Board),
  Fallible("create-board", CreateBoardRequest, Board),
  Fallible("update-board", UpdateBoardRequest, Board),
  Fallible("archive-board", Text, Empty),
  Fallible("set-board-member", SetBoardMemberRequest, Empty),
  Fallible("remove-board-member", RemoveBoardMemberRequest, Empty)>>)

CategoryRoutes == ByOp(<<
  Infallible("list-board-categories", Text, CategoryList),
  Fallible("create-category", CreateCategoryRequest, Category),
  Fallible("update-category", UpdateCategoryRequest, Category),
  Fallible("delete-category", DeleteCategoryRequest, Empty),
  Infallible("list-categories", Empty, CategoryList)>>)

ThreadRoutes == ByOp(<<
  Infallible("list-posts", ListPostsRequest, PostPage),
  Infallible("get-thread", GetThreadRequest, Thread),
  Fallible("create-post", CreatePostRequest, Post),
  Fallible("create-comment", CreateCommentRequest, Comment),
  Fallible("edit-post", EditPostRequest, Post),
  Fallible("edit-comment", EditCommentRequest, Comment),
  Infallible("list-revisions", TargetRef, RevisionList),
  Fallible("delete-post", Text, Empty),
  Fallible("delete-comment", Text, Empty)>>)

EndorsementRoutes == ByOp(<<
  Fallible("endorse", EndorseRequest, Endorsement),
  Fallible("retract", EndorseRequest, Empty),
  Infallible("list-endorsements", TargetRef, EndorsementList)>>)

SettingsRoutes == ByOp(<<
  Infallible("get-settings", Empty, UserSettings),
  Fallible("update-settings", UpdateSettingsRequest, UserSettings),
  Infallible("list-mention-grants", Empty, MentionGrantList),
  Fallible("grant-mention", Text, Empty),
  Fallible("revoke-mention", Text, Empty)>>)

SocialRoutes == ByOp(<<
  Infallible("list-friend-groups", Empty, FriendGroupList),
  Fallible("create-friend-group", CreateFriendGroupRequest, FriendGroup),
  Fallible("delete-friend-group", Text, Empty),
  Fallible("add-friend", AddFriendRequest, Empty),
  Fallible("remove-friend", RemoveFriendRequest, Empty),
  Fallible("resolve-user", Text, UserProfile)>>)

SubscriptionRoutes == ByOp(<<
  Fallible("subscribe", TargetRef, Subscription),
  Fallible("unsubscribe", TargetRef, Empty),
  Fallible("set-muted", SetMutedRequest, Subscription),
  Infallible("list-subscriptions", Empty, SubscriptionList)>>)

ReadRoutes == ByOp(<<
  Infallible("mark-read", TargetRef, Empty),
  Infallible("mark-unread", TargetRef, Empty),
  Infallible("unread-summary", Empty, UnreadSummary)>>)

NotificationRoutes == ByOp(<<
  Infallible("list-notifications", ListNotificationsRequest, NotificationPage),
  Infallible("mark-notification-read", ListOf(Text), Empty),
  Infallible("mark-all-read", Empty, Empty)>>)

IntegrationRoutes == ByOp(<<
  Fallible("create-github-mapping", CreateMappingRequest, GithubMapping),
  Infallible("list-github-mappings", Empty, MappingList),
  Fallible("delete-github-mapping", Text, Empty),
  Fallible("add-trusted-domain", Text, Empty),
  Fallible("remove-trusted-domain", Text, Empty),
  Infallible("list-trusted-domains", Empty, DomainList)>>)

\* The table is keyed by the lower-case names.
RouteKeys ==
  {"auth", "board", "category", "thread", "endorsement", "settings", "social",
   "subscription", "read", "notification", "integration"}
Routes ==
  [k \in RouteKeys |->
    CASE k = "auth" -> AuthRoutes
      [] k = "board" -> BoardRoutes
      [] k = "category" -> CategoryRoutes
      [] k = "thread" -> ThreadRoutes
      [] k = "endorsement" -> EndorsementRoutes
      [] k = "settings" -> SettingsRoutes
      [] k = "social" -> SocialRoutes
      [] k = "subscription" -> SubscriptionRoutes
      [] k = "read" -> ReadRoutes
      [] k = "notification" -> NotificationRoutes
      [] k = "integration" -> IntegrationRoutes]

\* dispatch drops a trailing "Service" and goes to lower case.
ServiceKey ==
  [s \in Services \cup RouteKeys |->
    CASE s = "AuthService" -> "auth"
      [] s = "BoardService" -> "board"
      [] s = "CategoryService" -> "category"
      [] s = "ThreadService" -> "thread"
      [] s = "EndorsementService" -> "endorsement"
      [] s = "SettingsService" -> "settings"
      [] s = "SocialService" -> "social"
      [] s = "SubscriptionService" -> "subscription"
      [] s = "ReadService" -> "read"
      [] s = "NotificationService" -> "notification"
      [] s = "IntegrationService" -> "integration"
      [] OTHER -> s]
=============================================================================
