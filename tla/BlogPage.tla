------------------------------ MODULE BlogPage ------------------------------
(***************************************************************************)
(* The blog screen in one tab: the form, the shop profile it shares with   *)
(* other tabs through a cookie, and the one call that writes the post.     *)
(* The text of a field is reduced to what the page tells apart: whether a  *)
(* required field is filled, and under which category a treatment was      *)
(* named.                                                                  *)
(***************************************************************************)
EXTENDS Naturals, FiniteSets

CONSTANTS
    Categories,   \* kinds of treatment, offered or typed
    NoCategory,   \* ""
    Products,     \* products a shop may list
    NoProduct,    \* ""
    MaxProducts,  \* MAX_SPECIAL_PRODUCTS
    Shops,        \* designer names and regions
    NoShop        \* nothing filled in

ASSUME BlogAssumption ==
    /\ NoCategory \notin Categories
    /\ NoProduct \notin Products /\ NoShop \notin Shops
    /\ IsFiniteSet(Products)   \* the profile fits a cookie of 4 KB
    /\ MaxProducts \in Nat

VARIABLES
    form,    \* the fields
    cookie,  \* the profile in the cookie
    seen,    \* the profile this tab has rendered
    post,    \* the call in flight, what it was made from, and its result
    phone    \* the step of a narrow window (0: a wide one)

blogVars == <<form, cookie, seen, post, phone>>

BlogSteps == 3   \* PHONE_INPUT_STEP_COUNT

EmptyForm == [category |-> NoCategory, treatment |-> NoCategory,
              others |-> FALSE, product |-> NoProduct]

Profile == [shop : Shops \union {NoShop}, products : SUBSET Products]
NoProfile == [shop |-> NoShop, products |-> {}]

\* buildBlogPayload: the fields, and the shop of the profile as last rendered.
Payload == [fields |-> form, shop |-> seen.shop]
NoPost == [fields |-> EmptyForm, shop |-> NoShop]

Requesting == post.sent # NoPost

\* isBlogFieldsReady: the treatment and the three free texts.
Ready(f) == f.treatment # NoCategory /\ f.others

CardShown(n) == phone = 0 \/ phone = n

\* useSyncExternalStore reads the cookie again whenever the page renders.
Rendered == seen' = cookie'

-----------------------------------------------------------------------------
(* The fields, in a fieldset that is disabled during a call *)

Change(n, f) ==
    /\ ~Requesting /\ CardShown(n)
    /\ form' = f
    /\ UNCHANGED <<cookie, post, phone>>
    /\ Rendered

\* Pressing the chosen one again, or "type it in", clears it.
ChooseCategory(c) ==
    Change(2, [form EXCEPT !.category = c, !.treatment = NoCategory])

\* The treatments offered are those of the category; another may be typed in.
NameTreatment ==
    /\ form.category # NoCategory
    /\ \E t \in {form.category, NoCategory} : Change(2, [form EXCEPT !.treatment = t])

FillOthers == Change(2, [form EXCEPT !.others = ~form.others])

\* One of the profile's products, or one typed in.
ChooseProduct(p) ==
    Change(3, [form EXCEPT !.product = IF form.product = p THEN NoProduct ELSE p])

-----------------------------------------------------------------------------
(* The profile *)

\* writeBlogProfile writes what this tab has rendered; a cookie over the size a
\* browser takes is dropped without a word.
WriteProfile(profile) ==
    /\ ~Requesting /\ CardShown(1)
    /\ cookie' \in {profile, cookie}
    /\ Rendered
    /\ UNCHANGED <<post, phone>>

TypeShop(shop) ==
    /\ WriteProfile([seen EXCEPT !.shop = shop])
    /\ UNCHANGED form

AddProduct(p) ==
    /\ p \notin seen.products /\ Cardinality(seen.products) < MaxProducts
    /\ WriteProfile([seen EXCEPT !.products = @ \union {p}])
    /\ UNCHANGED form

RemoveProduct(p) ==
    /\ p \in seen.products
    /\ WriteProfile([seen EXCEPT !.products = @ \ {p}])
    /\ form' = [form EXCEPT !.product = IF @ = p THEN NoProduct ELSE @]

\* Another tab tells this one nothing.
OtherTabWrites ==
    /\ cookie' \in Profile /\ Cardinality(cookie'.products) <= MaxProducts
    /\ UNCHANGED <<form, seen, post, phone>>

-----------------------------------------------------------------------------
(* The call and the steps of a phone *)

GenerateShown == CardShown(BlogSteps)

\* Mutant: the button does not wait for the required fields.
HandleGenerateAnyway ==
    /\ ~Requesting /\ GenerateShown /\ form # EmptyForm
    /\ post' = [post EXCEPT !.sent = Payload]
    /\ UNCHANGED <<form, cookie, phone>>
    /\ Rendered

HandleGenerate ==
    /\ ~Requesting /\ GenerateShown /\ Ready(form)
    /\ post' = [post EXCEPT !.sent = Payload]
    /\ UNCHANGED <<form, cookie, phone>>
    /\ Rendered

\* During the call the page renders again with every message it shows.
NextMessage ==
    /\ Requesting
    /\ UNCHANGED <<form, cookie, post, phone>>
    /\ Rendered

\* A post takes a phone to the result, which has no bar; a failure leaves a
\* message and the post before.
PostArrives ==
    /\ Requesting
    /\ \/ /\ post' = [sent |-> NoPost, shown |-> TRUE]
          /\ phone' = IF phone = 0 THEN 0 ELSE BlogSteps + 1
       \/ post' = [post EXCEPT !.sent = NoPost] /\ UNCHANGED phone
    /\ UNCHANGED <<form, cookie>>
    /\ Rendered

BlogStepNav ==
    /\ phone \in 1..BlogSteps
    /\ \/ phone > 1 /\ ~Requesting /\ phone' = phone - 1
       \/ phone < BlogSteps /\ (phone = 2 => Ready(form)) /\ phone' = phone + 1
    /\ UNCHANGED <<form, cookie, post>>
    /\ Rendered

BlogInit ==
    /\ form = EmptyForm
    /\ cookie = NoProfile /\ seen = NoProfile
    /\ post = [sent |-> NoPost, shown |-> FALSE]
    /\ phone \in {0, 1}

BlogNext ==
    \/ \E c \in Categories \union {NoCategory} : ChooseCategory(c)
    \/ NameTreatment \/ FillOthers
    \/ \E p \in Products : ChooseProduct(p) \/ AddProduct(p) \/ RemoveProduct(p)
    \/ \E shop \in Shops \union {NoShop} : TypeShop(shop)
    \/ OtherTabWrites \/ NextMessage
    \/ HandleGenerate \/ PostArrives \/ BlogStepNav

BlogSpec == BlogInit /\ [][BlogNext]_blogVars

-----------------------------------------------------------------------------
(* Properties *)

\* While a post is written the fields show what was sent, and isPayload of the
\* route accepts it.  The designer's name and the region are the profile's, which
\* another tab may change under the call: nothing is claimed of them.
PostIsOfForm == Requesting => post.sent.fields = form /\ Ready(post.sent.fields)

\* The fields hold what they should, the treatment one of the category above it.
BlogTypeOK ==
    /\ form \in [category : Categories \union {NoCategory},
                 treatment : {NoCategory, form.category},
                 others : BOOLEAN, product : Products \union {NoProduct}]
    /\ {seen, cookie} \subseteq Profile
    /\ Cardinality(cookie.products) <= MaxProducts
    /\ post.sent.shop \in Shops \union {NoShop}
    /\ post.shown \in BOOLEAN /\ phone \in 0..BlogSteps + 1

=============================================================================
