------------------------------- MODULE Schema -------------------------------
(***************************************************************************)
(* The messages of the RPC interface, as the generated codec               *)
(* (api/internal/csil/codec.gen.go) encodes and decodes them: for each     *)
(* message the fields in the order its csilEnc function lays them down,    *)
(* the type its csilDec function asks for, and whether it is required.     *)
(* clients/go/codec.gen.go is the same file under another package name.    *)
(***************************************************************************)

Text == [is |-> "text"]
Uint == [is |-> "uint"]
Bool == [is |-> "bool"]
Time == [is |-> "time"]
OneOf(names) == [is |-> "enum", of |-> names]
ListOf(type) == [is |-> "list", of |-> type]
Message(fields) == [is |-> "message", of |-> fields]

Required(key, type) == [key |-> key, type |-> type, optional |-> FALSE]
Optional(key, type) == [key |-> key, type |-> type, optional |-> TRUE]

TargetType == OneOf({"board", "post", "comment"})
UserKind == OneOf({"human", "system"})
BoardKind == OneOf({"discussion", "announce"})
BoardRole == OneOf({"maintainer", "moderator"})
Origin == OneOf({"user", "github", "system"})
MentionPolicy == OneOf({"everyone", "subscribed", "authorized", "nobody"})
NotificationEvent ==
  OneOf({"new_post", "new_comment", "mention", "endorsed", "github_event"})
ThreadMode ==
  OneOf({"post_per_release", "post_per_issue", "post_per_pull_request"})

-----------------------------------------------------------------------------
TargetRef == Message(<<
  Required("target_id", Text), Required("target_type", TargetType)>>)

Empty == Message(<<>>)

ServiceError == Message(<<
  Required("code", Uint), Optional("field", Text),
  Required("message", Text), Optional("resource_type", Text)>>)

BeginLoginRequest == Message(<<Required("domain", Text)>>)

BeginLoginResponse == Message(<<Required("redirect_url", Text)>>)

UserProfile == Message(<<
  Required("id", Text), Required("kind", UserKind),
  Required("roles", ListOf(Text)), Required("handle", Text),
  Required("created_at", Time), Required("display_name", Text),
  Required("linkkeys_domain", Text)>>)

Board == Message(<<
  Required("id", Text), Required("kind", BoardKind),
  Required("slug", Text), Required("title", Text),
  Required("created_at", Time), Required("created_by", Text),
  Optional("archived_at", Time), Optional("description", Text),
  Required("category_limit", Uint)>>)

ListBoardsRequest == Message(<<
  Optional("limit", Uint), Optional("cursor", Text)>>)

BoardPage == Message(<<
  Required("boards", ListOf(Board)), Optional("next_cursor", Text)>>)

CreateBoardRequest == Message(<<
  Required("kind", BoardKind), Required("slug", Text),
  Required("title", Text), Optional("description", Text),
  Optional("category_limit", Uint)>>)

UpdateBoardRequest == Message(<<
  Required("id", Text), Optional("title", Text),
  Optional("description", Text), Optional("category_limit", Uint)>>)

SetBoardMemberRequest == Message(<<
  Required("role", BoardRole), Required("user_id", Text),
  Required("board_id", Text)>>)

RemoveBoardMemberRequest == Message(<<
  Required("user_id", Text), Required("board_id", Text)>>)

Post == Message(<<
  Required("id", Text), Required("title", Text),
  Required("origin", Origin), Required("body_md", Text),
  Required("board_id", Text), Required("author_id", Text),
  Optional("edited_at", Time), Required("created_at", Time),
  Optional("deleted_at", Time), Optional("origin_ref", Text),
  Required("category_ids", ListOf(Text)), Optional("author_handle", Text),
  Required("comment_count", Uint), Required("last_activity_at", Time)>>)

Comment == Message(<<
  Required("id", Text), Required("origin", Origin),
  Required("body_md", Text), Required("post_id", Text),
  Required("author_id", Text), Optional("edited_at", Time),
  Required("created_at", Time), Optional("deleted_at", Time),
  Optional("origin_ref", Text), Optional("author_handle", Text),
  Optional("parent_comment_id", Text)>>)

ListPostsRequest == Message(<<
  Optional("limit", Uint), Optional("cursor", Text),
  Required("board_id", Text), Optional("category_ids", ListOf(Text)),
  Optional("include_uncategorized", Bool)>>)

PostPage == Message(<<
  Required("posts", ListOf(Post)), Optional("next_cursor", Text)>>)

GetThreadRequest == Message(<<Required("post_id", Text)>>)

Thread == Message(<<
  Required("post", Post), Required("comments", ListOf(Comment))>>)

CreatePostRequest == Message(<<
  Required("title", Text), Required("body_md", Text),
  Required("board_id", Text), Optional("category_ids", ListOf(Text))>>)

CreateCommentRequest == Message(<<
  Required("body_md", Text), Required("post_id", Text),
  Optional("parent_comment_id", Text)>>)

EditPostRequest == Message(<<
  Required("id", Text), Required("title", Text), Required("body_md", Text),
  Optional("category_ids", ListOf(Text))>>)

EditCommentRequest == Message(<<
  Required("id", Text), Required("body_md", Text)>>)

Revision == Message(<<
  Required("id", Text), Required("editor_id", Text),
  Required("target_id", Text), Required("created_at", Time),
  Optional("prev_title", Text), Required("target_type", TargetType),
  Required("prev_body_md", Text)>>)

RevisionList == Message(<<Required("revisions", ListOf(Revision))>>)

EndorseRequest == Message(<<
  Required("target_id", Text), Required("target_type", TargetType)>>)

Endorsement == Message(<<
  Required("id", Text), Required("user_id", Text),
  Required("target_id", Text), Required("created_at", Time),
  Optional("role_badge", Text), Required("target_type", TargetType),
  Optional("author_handle", Text)>>)

EndorsementList == Message(<<Required("endorsements", ListOf(Endorsement))>>)

UserSettings == Message(<<
  Optional("updated_at", Time), Required("mention_policy", MentionPolicy),
  Required("notify_on_endorse", Bool)>>)

UpdateSettingsRequest == Message(<<
  Optional("mention_policy", MentionPolicy),
  Optional("notify_on_endorse", Bool)>>)

MentionGrant == Message(<<
  Required("user_id", Text), Required("created_at", Time)>>)

MentionGrantList == Message(<<Required("grants", ListOf(MentionGrant))>>)

FriendGroup == Message(<<
  Required("id", Text), Required("name", Text),
  Required("members", ListOf(Text)), Required("created_at", Time)>>)

FriendGroupList == Message(<<Required("groups", ListOf(FriendGroup))>>)

CreateFriendGroupRequest == Message(<<Required("name", Text)>>)

AddFriendRequest == Message(<<
  Required("user_id", Text), Required("group_id", Text)>>)

RemoveFriendRequest == Message(<<
  Required("user_id", Text), Required("group_id", Text)>>)

Subscription == Message(<<
  Required("id", Text), Required("muted", Bool),
  Required("target_id", Text), Required("created_at", Time),
  Required("target_type", TargetType)>>)

SetMutedRequest == Message(<<
  Required("muted", Bool), Required("target_id", Text),
  Required("target_type", TargetType)>>)

SubscriptionList == Message(<<
  Required("subscriptions", ListOf(Subscription))>>)

BoardUnread == Message(<<
  Required("board_id", Text), Required("unread_count", Uint),
  Required("unread_post_ids", ListOf(Text))>>)

UnreadSummary == Message(<<Required("boards", ListOf(BoardUnread))>>)

Notification == Message(<<
  Required("id", Text), Required("event", NotificationEvent),
  Required("post_id", Text), Optional("read_at", Time),
  Optional("actor_id", Text), Required("target_id", Text),
  Required("created_at", Time), Required("target_type", TargetType),
  Optional("actor_handle", Text), Optional("actor_display_name", Text)>>)

ListNotificationsRequest == Message(<<
  Optional("limit", Uint), Optional("cursor", Text),
  Optional("unread_only", Bool)>>)

NotificationPage == Message(<<
  Optional("next_cursor", Text),
  Required("notifications", ListOf(Notification))>>)

GithubMapping == Message(<<
  Required("id", Text), Required("repo", Text),
  Required("events", ListOf(Text)), Required("board_id", Text),
  Required("created_at", Time), Required("created_by", Text),
  Required("thread_mode", ThreadMode)>>)

CreateMappingRequest == Message(<<
  Required("repo", Text), Required("events", ListOf(Text)),
  Required("board_id", Text), Required("secret_ref", Text),
  Required("thread_mode", ThreadMode)>>)

MappingList == Message(<<Required("mappings", ListOf(GithubMapping))>>)

DomainEntry == Message(<<
  Required("domain", Text), Required("added_by", Text),
  Required("created_at", Time)>>)

DomainList == Message(<<Required("domains", ListOf(DomainEntry))>>)

Category == Message(<<
  Required("id", Text), Required("name", Text), Required("slug", Text),
  Required("board_ids", ListOf(Text)), Required("created_at", Time),
  Optional("description", Text), Required("cross_board_posting", Bool)>>)

CategoryList == Message(<<Required("categories", ListOf(Category))>>)

CreateCategoryRequest == Message(<<
  Required("name", Text), Required("slug", Text),
  Required("board_ids", ListOf(Text)), Optional("description", Text),
  Required("cross_board_posting", Bool)>>)

UpdateCategoryRequest == Message(<<
  Required("id", Text), Optional("name", Text),
  Optional("board_ids", ListOf(Text)), Optional("description", Text),
  Optional("cross_board_posting", Bool)>>)

DeleteCategoryRequest == Message(<<
  Required("id", Text), Required("remove_from_posts", Bool)>>)
=============================================================================
