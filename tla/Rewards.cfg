SPECIFICATION GrowthSpec
CHECK_DEADLOCK FALSE
CONSTANTS
    None = None
    Idle = Idle
    Gift = Gift
    Sale = Sale
    Coupon = Coupon
    Badge = Badge
    gift = gift
    sale = sale
    again = again
    coupon = coupon
    badge = badge
    order = order
    paying = paying
    free = free
    nothing = nothing
    step = step
    other = other
    whole = whole
    last = last
    Codes = {Gift, Sale, Coupon, Badge}
    Discounts = {Sale, Coupon}
    Empty = {Badge}
    Redemptions = {gift, sale, again, coupon, badge}
    Orders = {order}
    CodeOf <- MCCodeOf
    UserOf <- MCUserOf
    OrderOf <- MCOrderOf
    Places <- MCOne
    PerUser <- MCOne
    Missions = {paying, free}
    AutoGrant = {paying}
    Unrewarded = {free}
    Target = 2
    Events = {nothing, step, other, whole, last}
    MissionOf <- MCMissionOf
    Worth <- MCWorth
INVARIANTS PromoLimit RedemptionGave MissionPaidWhenDone
CONSTRAINT MCFewRequests
