-------------------------- MODULE MCShopAdmin --------------------------
(* One shop with its reseller, two customers, one of whom may manage it,    *)
(* and a top-up of each.                                                    *)
EXTENDS ShopCustomers, TLC

CONSTANTS ann, ben

Buyers == 1 :> ann @@ 2 :> ben
Fixed(g) == [on |-> TRUE, archived |-> FALSE, gift |-> g, worth |-> 1, cap |-> 1, used |-> 0]
World(do, via, by, may, most) ==
    [do |-> do, via |-> via, by |-> by, may |-> may, sends |-> most, plans |-> {}, code |-> None,
     topups |-> Topups, bal |-> 0, tried |-> TRUE, talk |-> {}, talkers |-> {}, hears |-> 0, tasks |-> 2]
All == {"portal", "flow", "button"}
PlanCommands == {"create_plan", "update_plan", "set_plan_enabled", "delete_plan", "reorder_plans"}
SettingCommands == {"update_payment", "update_trial", "update_messages", "update_shop_state",
                    "update_notifications"}
ManagerCommands == {"add_manager", "remove_manager", "set_customer_banned"}
ChannelCommands == {"channel.save", "channel.enable", "set_channel_required", "delete_channel"}
OrderCommands == {"order.set_enabled", "order.delete"}
CreditCommands == {"create_credit", "update_credit", "set_credit_enabled", "archive_credit"}
Gifts == {"ask gift", "gift"}
Buys == {"buy", "name", "confirm", "cancel"}
Charges == {"topup", "amount", "ask code", "no code", "code", "card", "proof"}
Chosen ==
    { [World(PlanCommands, {"portal", "flow"}, {Owner}, {"cost"}, 2) EXCEPT !.plans = Plans],
      [World(PlanCommands, All, {Owner}, {}, 2) EXCEPT !.plans = {}],
      World(SettingCommands, All, {Owner, ann}, {}, 2),
      World({"update_payment"}, {"portal"}, {Owner}, {"again", "lost", "crash"}, 3),
      World({"channel.save", "channel.enable"}, {"portal"}, {Owner},
            {"late", "unclear", "again", "crash", "lost"}, 2),
      World(ChannelCommands, {"button"}, {Owner}, {"token"}, 2),
      World(ManagerCommands \cup {"channel.enable", "set_plan_enabled"}, All, {Owner, ann}, {}, 2),
      World(OrderCommands, {"portal"}, {Owner}, {"late", "unclear", "again", "crash"}, 2),
      [World({"set_plan_enabled", "update_plan"}, {"portal"}, {Owner}, {"below", "cost"}, 2)
             EXCEPT !.plans = Plans],
      World({"create_plan", "update_shop_state", "update_trial"}, {"button", "portal"}, {Owner},
            {"trial", "below", "cost", "crash"}, 1),
      [World({"set_topup_decision", "adjust_wallet", "bulk_topup_decisions"}, {"portal"}, {Owner},
             {"again", "late", "crash"}, 2) EXCEPT !.code = Fixed(FALSE)],
      [World({"set_topup_decision", "adjust_wallet"}, {"flow", "button"}, {Owner}, {}, 2)
             EXCEPT !.code = Fixed(FALSE)],
      [World(CreditCommands \cup {"set_topup_decision", "set_customer_banned"}, {"portal"}, {Owner},
             {}, 1) EXCEPT !.code = Fixed(TRUE), !.topups = {1}, !.talk = Gifts, !.talkers = {ann, ben}, !.hears = 4],
      [World(CreditCommands, All, {Owner}, {}, 2) EXCEPT !.code = None],
      [World({"update_plan", "set_plan_enabled", "adjust_wallet"}, {"portal"}, {Owner},
             {"restart"}, 1) EXCEPT !.bal = 2, !.talk = Buys, !.talkers = {ann}, !.hears = 4],
      [World({"set_topup_decision"}, {"button"}, {Owner}, {}, 1)
             EXCEPT !.code = Fixed(FALSE), !.topups = {1}, !.talk = Charges, !.talkers = {ben}, !.hears = 6,
                    !.tasks = 1],
      [World({}, {}, {}, {}, 0)
             EXCEPT !.topups = {}, !.talk = {"usdt", "card", "proof"}, !.talkers = {ann, ben}, !.hears = 4],
      [World({}, {}, {}, {"channel"}, 0)
             EXCEPT !.talk = {"topup", "ask gift"}, !.talkers = {ben}, !.hears = 2],
      [World({"set_customer_banned"}, {"button"}, {Owner}, {"trial", "suspend", "restart"}, 1)
             EXCEPT !.tried = FALSE, !.talk = {"trial"}, !.talkers = {ben}, !.hears = 3],
      [World({}, {}, {}, {}, 0)
             EXCEPT !.talk = {"trial", "support", "question", "cancel"}, !.talkers = {ben}, !.hears = 3] }

=============================================================================
